---- MODULE Spec2Model ----
(***************************************************************************)
(* Media webhook plugin: notification normalisation, deduplication,        *)
(* enrichment and dispatch.                                                *)
(*                                                                         *)
(* The repository holds two revisions of the pipeline:                     *)
(*   - main.py: MediaWebhookPlugin, with the HTTP handler, the dedup       *)
(*     cache, the message queue and the batch processor;                   *)
(*   - media/: MediaDataProcessor + MediaHandler + EnrichmentManager, the  *)
(*     modular pipeline (convert, enrich, validate, dedup).                *)
(*                                                                         *)
(* Specifications:                                                         *)
(*   Spec       main.py handle_webhook with its dedup cache and the clock  *)
(*   SpecBatch  main.py message queue and batch processor                  *)
(*   SpecMedia  media/data_processor.py detect_and_process_raw_data        *)
(*   SpecEnrich media/enrichment/enrichment_manager.py enrich_media_data   *)
(*   SpecHash   the two fingerprint functions on pairs of notifications    *)
(***************************************************************************)
EXTENDS Integers, Sequences, FiniteSets, TLC

VARIABLES
    \* ---- main.py MediaWebhookPlugin: webhook ingress ----
    now,            \* time.time(), in model ticks
    request_cache,  \* self.request_cache: set of [hash, expire]
    handlers,       \* handle_webhook tasks suspended in their enrichment await
    responses,      \* the Responses returned so far, in order (with ghost fields)
    nRequests,      \* number of webhook requests received
    \* ---- main.py MediaWebhookPlugin: queue and batch processor ----
    cfg,            \* the configuration values read in _init_core_config
    message_queue,  \* self.message_queue
    producers,      \* _add_to_queue coroutines suspended in get_fallback_image
    nItems,         \* number of _add_to_queue invocations
    bpc,            \* position of the batch processor task
    messages,       \* local variable messages of process_message_queue
    bidx,           \* loop index inside send_individual_messages
    cycle,          \* number of drains performed
    drainedSets,    \* ghost: the drained copies, one per drain
    dispatchLog,    \* ghost: the dispatch calls, in order
    \* ---- media/enrichment: EnrichmentManager ----
    providers,      \* self.enrichment_providers, as built by _initialize_providers
    media_cache,    \* rows of the media_cache table: set of [cache_key, data, expiry]
    enrich_calls,   \* enrich_media_data calls suspended in a provider await
    enrich_log,     \* ghost: the enrichment call that returned in the last step, if any
    nEnrich,        \* number of enrichment calls started
    cache_ops,      \* ghost: the CacheManager calls enrich_media_data made in the last step
    \* ---- media/data_processor.py: MediaDataProcessor ----
    dp_request_cache, \* MediaDataProcessor.request_cache: set of [hash, expire]
    dp_tasks,       \* detect_and_process_raw_data tasks suspended in an await
    dp_results,     \* ghost: what detect_and_process_raw_data returned in the last step
    nRaw,           \* number of raw messages handed to detect_and_process_raw_data
    \* ---- the fingerprint functions on a pair of notifications ----
    pair,           \* two notifications and the times their payloads are built
    fps,            \* the fingerprints computed for the pair
    \* ---- the providers' request rate limit ----
    last_request_time, \* per provider: self.last_request_time
    sleepers,       \* the _rate_limit calls suspended in asyncio.sleep
    requests,       \* ghost: the outbound requests started, in order
    \* ---- the pure functions applied to one input ----
    probe,          \* the input handed to a function: [fn, ...]
    verdict         \* what the function returned for it: [fn, ...]

ingressVars == <<now, request_cache, handlers, responses, nRequests>>
batchVars == <<cfg, message_queue, producers, nItems, bpc, messages, bidx, cycle,
               drainedSets, dispatchLog>>
enrichVars == <<providers, media_cache, enrich_calls, enrich_log, nEnrich, cache_ops>>
mediaVars == <<dp_request_cache, dp_tasks, dp_results, nRaw>>
hashVars == <<pair, fps>>
rateVars == <<last_request_time, sleepers, requests>>
probeVars == <<probe, verdict>>
\* what main.py does not touch
mediaSideVars == <<enrichVars, mediaVars, hashVars, rateVars, probeVars>>
vars == <<ingressVars, batchVars, enrichVars, mediaVars, hashVars, rateVars, probeVars>>

----------------------------------------------------------------------------
(* Bounds of the model *)

MaxTime == 3        \* the clock stops here
MaxRequests == 2    \* webhook requests per behaviour
CacheTtl == 1       \* cache_ttl_seconds, in model ticks
MaxItems == 3       \* _add_to_queue invocations per behaviour
MaxCycles == 2      \* drains per behaviour
MaxEnrich == 2      \* enrichment calls per behaviour
MaxInFlight == 1    \* enrichment calls suspended at the same time
MaxRaw == 2         \* raw messages per behaviour
CachePersistence == 2  \* persistence_seconds of the metadata cache, in model ticks
TmdbIntervalTicks == 2 \* TMDBProvider.request_interval, in model ticks
TvdbIntervalTicks == 1 \* TVDBProvider.request_interval, in model ticks
MaxRateTasks == 2   \* tasks that use the providers at the same time
MaxOutbound == 3    \* outbound requests per behaviour
MaxTextLen == 4      \* pieces in a non-JSON body text
MaxNumber == 11      \* season and episode numbers of the probed notifications
ProviderCacheTtl == 2  \* cache_ttl of the lookup caches (3600 s), in model ticks
MaxLookups == 2     \* lookups of one provider object
MaxRegistryCalls == 3  \* add_processor / remove_processor calls on one manager

----------------------------------------------------------------------------
(* Generic helpers *)

Absent == "<absent>"    \* a key that the dict does not hold

\* dict.get(key, default)
Get(v, default) == IF v = Absent THEN default ELSE v

\* Python truthiness of a str value held under a key ("" and a missing key are falsy)
Truthy(v) == v # Absent /\ v # ""

Digits == <<"0", "1", "2", "3", "4", "5", "6", "7", "8", "9">>

RECURSIVE Str(_)
\* str(n) for a non-negative int
Str(n) == IF n < 10 THEN Digits[n + 1] ELSE Str(n \div 10) \o Digits[(n % 10) + 1]

\* str(item.get(key, "")) for an int-valued key; -1 stands for the missing key
StrOrEmpty(n) == IF n < 0 THEN "" ELSE Str(n)

\* str.strip() on the strings of the model
Strip(s) ==
    CASE s = " " -> ""
      [] s = "Show " -> "Show"
      [] s = " Show" -> "Show"
      [] OTHER -> s

Range(s) == {s[i] : i \in 1..Len(s)}

RECURSIVE SeqSum(_)
SeqSum(s) == IF s = <<>> THEN 0 ELSE Head(s) + SeqSum(Tail(s))

----------------------------------------------------------------------------
(* main.py: configuration *)

\* MediaWebhookPlugin._init_core_config: the values the plugin keeps as attributes
Config(group, minSize, force, platform, tmdbKey) ==
    [group_id |-> group, batch_min_size |-> minSize, force_individual_send |-> force,
     platform_name |-> platform, tmdb_api_key |-> tmdbKey, cache_ttl_seconds |-> CacheTtl]

----------------------------------------------------------------------------
(* main.py: webhook bodies and their conversion *)

\* A webhook request as handle_webhook sees it: how the body parses, the source
\* detect_notification_source reports for it, and the payload keys the converters read.
\* Season and Episode are ints (-1: key missing).
Raw(body, source, type, name, titleSeries, season, episode, image, text) ==
    [body |-> body, source |-> source, Type |-> type, Name |-> name,
     TitleSeries |-> titleSeries, Season |-> season, Episode |-> episode,
     image_url |-> image, text |-> text]

RawRequests ==
    { Raw("empty", "default", Absent, Absent, Absent, -1, -1, "", ""),
      Raw("invalid", "default", Absent, Absent, Absent, -1, -1, "", "plain text"),
      Raw("template", "ani-rss", Absent, Absent, Absent, -1, -1, "", "${title} ${season} ${episode}"),
      Raw("json", "emby", "Episode", "Ep", "Show", 1, 3, "", ""),
      Raw("json", "emby", "Episode", "Ep", "Show", 1, 4, "", ""),
      Raw("json", "emby", "Movie", "Film", Absent, -1, -1, "", ""),
      Raw("json", "default", "Grab", "Show", Absent, 1, 3, "u1", ""),
      Raw("json", "default", "Grab", "Show", Absent, 1, 3, "u2", "") }

\* The media_data dict; a key the dict lacks is "" (it is only read with .get(key, "")).
\* rest: the content of the keys outside the canonical ones.
MediaData(itemType, series, item, season, episode, year, image, enriched, tpl, rest) ==
    [item_type |-> itemType, series_name |-> series, item_name |-> item,
     season_number |-> season, episode_number |-> episode, year |-> year,
     image_url |-> image, enriched |-> enriched, text_template |-> tpl, rest |-> rest,
     timestamp |-> ""]

\* handle_webhook keeps raw_data as media_data for ani-rss and for unknown sources
RawAsMediaData(raw) ==
    MediaData("", "", "", "", "", "", raw.image_url, "",
              IF raw.body = "template" THEN raw.text ELSE "",
              Get(raw.Type, "") \o "|" \o Get(raw.Name, "") \o "|" \o
              StrOrEmpty(raw.Season) \o "|" \o StrOrEmpty(raw.Episode))

\* MediaWebhookPlugin.convert_emby_to_media_data
ConvertEmbyToMediaData(raw) ==
    LET item_type == Get(raw.Type, "Unknown")
        item_name == Get(raw.Name, "")
        series_name ==
            IF item_type = "Episode"
            THEN IF Truthy(raw.TitleSeries) /\ Strip(raw.TitleSeries) # ""
                 THEN Strip(raw.TitleSeries) ELSE item_name
            ELSE ""
    IN  MediaData(item_type, series_name, "",
                  IF item_type = "Episode" THEN StrOrEmpty(raw.Season) ELSE "",
                  IF item_type = "Episode" THEN StrOrEmpty(raw.Episode) ELSE "",
                  "", "", "", "", item_name)

\* MediaWebhookPlugin.convert_generic_media_data
ConvertGenericMediaData(raw) ==
    LET item_type == IF Truthy(raw.Type) THEN raw.Type ELSE "Episode"
        item_name == IF Truthy(raw.Name) THEN raw.Name ELSE ""
        series_name == IF Truthy(raw.TitleSeries) THEN raw.TitleSeries ELSE item_name
    IN  MediaData(item_type, series_name, item_name,
                  IF raw.Season > 0 THEN Str(raw.Season) ELSE "",
                  IF raw.Episode > 0 THEN Str(raw.Episode) ELSE "",
                  "", "", "", "", "")

\* the conversion handle_webhook applies for a source (lines 304-322)
Convert(source, raw) ==
    IF source = "emby" THEN ConvertEmbyToMediaData(raw)
    ELSE IF source \in {"jellyfin", "plex"} THEN ConvertGenericMediaData(raw)
    ELSE RawAsMediaData(raw)

----------------------------------------------------------------------------
(* main.py: enrichment through the external APIs *)

\* enrich_media_data_with_external_apis reaches the network only for an Episode
\* with a series name and an episode number
NeedsNetwork(md) ==
    md.item_type = "Episode" /\ md.series_name # "" /\ md.episode_number # ""

\* What the external services answer: whether TMDB / BGM.TV find the episode and
\* whether the fallback image lookup finds an image.
ApiOutcomes == [tmdb : BOOLEAN, bgm : BOOLEAN, img : BOOLEAN]

\* try_tmdb_enrichment: a copy with the episode fields of TMDB
TryTmdbEnrichment(md, o) ==
    IF o.tmdb
    THEN [md EXCEPT !.item_name = "TmdbTitle", !.year = "2024", !.enriched = "tmdb"]
    ELSE md

\* enrich_media_data_with_bgm: a copy with the episode fields of BGM.TV
EnrichMediaDataWithBgm(md, o) ==
    IF o.bgm
    THEN [md EXCEPT !.item_name = "BgmTitle", !.year = "2023", !.enriched = "bgm"]
    ELSE md

\* the TMDB step runs only with an API key and a season number (line 1059)
TmdbAttempted(md, c) == c.tmdb_api_key /\ md.season_number # ""

\* MediaWebhookPlugin.enrich_media_data_with_external_apis
EnrichMediaDataWithExternalApis(md, o, c) ==
    IF ~NeedsNetwork(md) THEN md
    ELSE IF TmdbAttempted(md, c) /\ TryTmdbEnrichment(md, o).enriched = "tmdb"
         THEN TryTmdbEnrichment(md, o)
    ELSE IF EnrichMediaDataWithBgm(md, o).enriched = "bgm"
         THEN EnrichMediaDataWithBgm(md, o)
    ELSE IF md.image_url = "" /\ o.img
         THEN [md EXCEPT !.image_url = "fallback.jpg"]
    ELSE md

\* the provider calls one run of the enrichment makes, in order
ProviderCalls(md, o, c) ==
    IF ~NeedsNetwork(md) THEN <<>>
    ELSE IF TmdbAttempted(md, c) /\ o.tmdb THEN <<"tmdb">>
    ELSE (IF TmdbAttempted(md, c) THEN <<"tmdb">> ELSE <<>>) \o
         (IF o.bgm THEN <<"bgm">>
          ELSE <<"bgm">> \o (IF md.image_url = "" THEN <<"image">> ELSE <<>>))

----------------------------------------------------------------------------
(* main.py: request fingerprint and dedup cache *)

\* the keys of hash_data, in the order json.dumps(sort_keys=True) writes them
HashKeys == <<"episode_number", "item_name", "item_type", "season_number",
              "series_name", "year">>

\* A digest, kept as the string that is hashed: which branch built it, the six
\* identifying fields and the remaining content
Digest(kind, fields, content) == [kind |-> kind, fields |-> fields, content |-> content]

NoFields == [i \in 1..6 |-> ""]

\* MediaWebhookPlugin._is_ani_rss_data
IsAniRssData(md) == md.text_template # ""

\* MediaWebhookPlugin._calculate_ani_rss_hash (the digest is kept as its preimage)
CalculateAniRssHash(md) == Digest("ani_rss_template", NoFields, md.text_template)

\* the keys a media_data dict of the model holds besides the six identifying ones
OtherKeys == <<"enriched", "image_url", "rest", "timestamp">>

\* _calculate_standard_hash lines 428-431: excluded_fields
ExcludedFields == {"image_url", "timestamp", "raw_message", "headers",
                   "request_time", "processed_time", "cache_time"}

\* k.endswith("_url") on the keys of the model
EndsWithUrl(k) == k \in {"image_url"}

\* the condition of the dict comprehension of lines 432-435
KeptInFallback(k) == k \notin ExcludedFields /\ ~EndsWithUrl(k)

RECURSIVE StrOfItems(_, _)
\* str() of the dict md restricted to keys
StrOfItems(md, keys) ==
    IF keys = <<>> THEN ""
    ELSE Head(keys) \o "=" \o md[Head(keys)] \o ";" \o StrOfItems(md, Tail(keys))

\* MediaWebhookPlugin._calculate_standard_hash: the six identifying fields, stripped,
\* empty ones dropped; when all are empty, str() of the remaining content without the
\* excluded fields and the *_url keys
CalculateStandardHash(md) ==
    LET hash_data == [i \in 1..6 |-> Strip(md[HashKeys[i]])]
    IN  IF \A i \in 1..6 : hash_data[i] = ""
        THEN Digest("fallback_content", NoFields,
                    StrOfItems(md, SelectSeq(OtherKeys, KeptInFallback)))
        ELSE Digest("standard", hash_data, "")

\* a value of the body that is no str: a JSON number or null, kept as a marker
NotAString == {"<number>", "<null>"}

\* the hash functions raise on a value that has no strip() or encode(): the
\* template of an Ani-RSS dict (line 398), or series_name, item_name or item_type
\* of another dict (lines 414-418); the other three fields go through str()
HashRaises(md) ==
    IF IsAniRssData(md) THEN md.text_template \in NotAString
    ELSE \E k \in {"series_name", "item_name", "item_type"} : md[k] \in NotAString

\* the None _calculate_request_hash returns when the computation raised
NoHash == Digest("None", NoFields, "")

\* MediaWebhookPlugin._calculate_request_hash
CalculateRequestHash(md) ==
    IF HashRaises(md) THEN NoHash
    ELSE IF IsAniRssData(md) THEN CalculateAniRssHash(md) ELSE CalculateStandardHash(md)

\* a cleanup that removes nothing
CleanupKeepsAll(cache, current_time) == cache

\* MediaWebhookPlugin._cleanup_expired_cache
CleanupExpiredCache(cache, current_time) ==
    {e \in cache : ~(e.expire < current_time)}

\* MediaWebhookPlugin._is_duplicate_request: the value it returns (False at once
\* when there is no hash, lines 343-344)
IsDuplicateRequest(cache, md, current_time) ==
    /\ CalculateRequestHash(md) # NoHash
    /\ \E e \in CleanupExpiredCache(cache, current_time) :
          e.hash = CalculateRequestHash(md)

\* a check that would start the window of an entry anew when it reports a duplicate
CacheAfterCheckRefreshes(cache, md, current_time, ttl) ==
    {e \in CleanupExpiredCache(cache, current_time) : e.hash # CalculateRequestHash(md)}
        \cup {[hash |-> CalculateRequestHash(md), expire |-> current_time + ttl]}

\* a check that would go on to the sweep and the insert without a hash
CacheAfterCheckWithoutHash(cache, md, current_time, ttl) ==
    IF IsDuplicateRequest(cache, md, current_time)
    THEN CleanupExpiredCache(cache, current_time)
    ELSE CleanupExpiredCache(cache, current_time) \cup
         {[hash |-> CalculateRequestHash(md), expire |-> current_time + ttl]}

\* MediaWebhookPlugin._is_duplicate_request: the cache it leaves
CacheAfterCheck(cache, md, current_time, ttl) ==
    IF CalculateRequestHash(md) = NoHash THEN cache
    ELSE IF IsDuplicateRequest(cache, md, current_time)
    THEN CleanupExpiredCache(cache, current_time)
    ELSE CleanupExpiredCache(cache, current_time) \cup
         {[hash |-> CalculateRequestHash(md), expire |-> current_time + ttl]}

----------------------------------------------------------------------------
(* main.py: handle_webhook *)

\* MediaWebhookPlugin.generate_message_text, reduced to the fields it prints
GenerateMessageText(md, source) ==
    IF source = "ani-rss" THEN md.text_template
    ELSE md.item_type \o " " \o md.series_name \o " S" \o md.season_number \o
         "E" \o md.episode_number \o " " \o md.item_name

\* the dict _add_to_queue appends (lines 477-482); id is a ghost field that names
\* the request or invocation the payload belongs to
MessagePayload(id, image, text, source, t) ==
    [id |-> id, image_url |-> image, message_text |-> text, source |-> source,
     timestamp |-> t]

\* handle_webhook line 330, self._add_to_queue(media_data, source): _add_to_queue is
\* a coroutine function and the call is not awaited, so the coroutine object is
\* dropped and its body never runs; the queue is what it was
CallAddToQueue(queue, payload) == queue

\* a handle_webhook that would check for a duplicate before it enriches
StagesDedupBeforeEnrich(source) ==
    IF source \in {"emby", "jellyfin", "plex"}
    THEN <<"convert", "dedup", "enrich", "enqueue">>
    ELSE <<"dedup", "enqueue">>

\* the steps handle_webhook performs on the parsed body of a source, in the order
\* of lines 303-331
HandleWebhookStages(source) ==
    IF source \in {"emby", "jellyfin", "plex"}
    THEN <<"convert", "enrich", "dedup", "enqueue">>
    ELSE <<"dedup", "enqueue">>

\* A handle_webhook task: the request, the media_data so far, the steps left, the
\* steps done (ghost), and the plugin state it works on
Task(id, raw, md, stages, trace, cache, queue, state) ==
    [id |-> id, raw |-> raw, md |-> md, stages |-> stages, trace |-> trace,
     cache |-> cache, queue |-> queue, state |-> state]

RECURSIVE RunStages(_, _, _)
\* Runs the steps of a task up to its next suspension or its return, at time t:
\* the task suspends in the enrichment await when that reaches the network, returns
\* "duplicate" when the dedup check says so, and returns "queued" after the last step
RunStages(st, t, c) ==
    IF st.stages = <<>> THEN [st EXCEPT !.state = "queued"]
    ELSE
      LET stage == Head(st.stages)
          next == [st EXCEPT !.stages = Tail(st.stages), !.trace = Append(@, stage)]
      IN  CASE stage = "convert" ->
                 RunStages([next EXCEPT !.md = Convert(st.raw.source, st.raw)], t, c)
            [] stage = "enrich" ->
                 IF NeedsNetwork(st.md)
                 THEN [next EXCEPT !.state = "suspended"]
                 ELSE RunStages(next, t, c)
            [] stage = "dedup" ->
                 IF IsDuplicateRequest(st.cache, st.md, t)
                 THEN [next EXCEPT !.state = "duplicate", !.stages = <<>>,
                                   !.cache = CacheAfterCheck(st.cache, st.md, t,
                                                             c.cache_ttl_seconds)]
                 ELSE RunStages([next EXCEPT !.cache =
                          CacheAfterCheck(st.cache, st.md, t, c.cache_ttl_seconds)], t, c)
            [] stage = "enqueue" ->
                 RunStages([next EXCEPT !.queue = CallAddToQueue(st.queue,
                     MessagePayload(st.id, st.md.image_url,
                         GenerateMessageText(st.md, st.raw.source), st.raw.source, t))],
                     t, c)

\* the Response handle_webhook returns, with the ghost fields of the request
Response(id, status, text, st, t) ==
    [id |-> id, status |-> status, text |-> text, source |-> st.raw.source,
     body |-> st.raw.body, hash |-> CalculateRequestHash(st.md), trace |-> st.trace,
     time |-> t]

\* what a task that ran up to st leaves behind: either it stays suspended, or it
\* has returned its Response
Settle(st) ==
    /\ request_cache' = st.cache
    /\ message_queue' = st.queue
    /\ IF st.state = "suspended"
       THEN /\ handlers' = handlers \cup {st}
            /\ UNCHANGED responses
       ELSE /\ handlers' = handlers \ {h \in handlers : h.id = st.id}
            /\ responses' = Append(responses,
                   Response(st.id, 200,
                            IF st.state = "duplicate" THEN "duplicate" ELSE "queued",
                            st, now))

\* a body only answers to the empty test
RejectsOnlyEmpty(raw) == raw.body = "empty"

\* handle_webhook lines 246-292: the body is empty, or it is no JSON, cannot be
\* repaired to JSON and is no Ani-RSS text template
RejectedAtIngress(raw) == raw.body \in {"empty", "invalid"}

\* handle_webhook, from the request to its first suspension or its Response
HandleWebhook(raw) ==
    /\ nRequests < MaxRequests
    /\ nRequests' = nRequests + 1
    /\ LET id == nRequests + 1
           st0 == Task(id, raw, RawAsMediaData(raw), HandleWebhookStages(raw.source),
                       <<>>, request_cache, message_queue, "running")
       IN  IF RejectedAtIngress(raw)
           THEN /\ responses' = Append(responses,
                        Response(id, 400, raw.body, st0, now))
                /\ UNCHANGED <<request_cache, handlers, message_queue>>
           ELSE Settle(RunStages(st0, now, cfg))
    /\ UNCHANGED mediaSideVars
    /\ UNCHANGED <<now, cfg, producers, nItems, bpc, messages, bidx, cycle,
                   drainedSets, dispatchLog>>

\* a handler that would check the dedup cache as it was before its enrichment await
HandleWebhookResumeStaleCache(h, o) ==
    /\ h \in handlers
    /\ LET st == [h EXCEPT !.md = EnrichMediaDataWithExternalApis(h.md, o, cfg),
                           !.trace = h.trace \o ProviderCalls(h.md, o, cfg),
                           !.queue = message_queue,
                           !.state = "running"]
       IN  Settle(RunStages(st, now, cfg))
    /\ UNCHANGED mediaSideVars
    /\ UNCHANGED <<now, nRequests, cfg, producers, nItems, bpc, messages, bidx, cycle,
                   drainedSets, dispatchLog>>

\* handle_webhook resumes when the enrichment await returns with what the external
\* services answered
HandleWebhookResume(h, o) ==
    /\ h \in handlers
    /\ LET st == [h EXCEPT !.md = EnrichMediaDataWithExternalApis(h.md, o, cfg),
                           !.trace = h.trace \o ProviderCalls(h.md, o, cfg),
                           !.cache = request_cache,
                           !.queue = message_queue,
                           !.state = "running"]
       IN  Settle(RunStages(st, now, cfg))
    /\ UNCHANGED mediaSideVars
    /\ UNCHANGED <<now, nRequests, cfg, producers, nItems, bpc, messages, bidx, cycle,
                   drainedSets, dispatchLog>>

\* time passes
Tick ==
    /\ now < MaxTime
    /\ now' = now + 1
    /\ UNCHANGED mediaSideVars
    /\ UNCHANGED <<request_cache, handlers, responses, nRequests, batchVars>>

\* the providers that limit their request rate, and the least time between two
\* requests of each (request_interval, in clock ticks)
RateProviders == {"TMDB", "TVDB"}

RequestInterval(p) == IF p = "TMDB" THEN TmdbIntervalTicks ELSE TvdbIntervalTicks

\* no pure function has been applied
ProbeIdle == probe = [fn |-> "none"] /\ verdict = [fn |-> "none"]

\* no provider has made a request: last_request_time is 0 on a clock that reads the
\* seconds since 1970, so the first call finds the interval long over
RateIdle ==
    /\ last_request_time = [p \in RateProviders |-> 0 - RequestInterval(p)]
    /\ sleepers = {}
    /\ requests = <<>>

\* the media/ pipeline is not running
MediaSideIdle ==
    /\ providers = <<>>
    /\ media_cache = {}
    /\ enrich_calls = {}
    /\ enrich_log = <<>>
    /\ nEnrich = 0
    /\ cache_ops = <<>>
    /\ RateIdle
    /\ ProbeIdle
    /\ dp_request_cache = {}
    /\ dp_tasks = {}
    /\ dp_results = <<>>
    /\ nRaw = 0
    /\ pair = <<>>
    /\ fps = <<>>

IngressConfigs == {Config("g1", 3, FALSE, "aiocqhttp", k) : k \in BOOLEAN}

Init ==
    /\ now = 0
    /\ request_cache = {}
    /\ handlers = {}
    /\ responses = <<>>
    /\ nRequests = 0
    /\ cfg \in IngressConfigs
    /\ message_queue = <<>>
    /\ producers = {}
    /\ nItems = 0
    /\ bpc = "idle"
    /\ messages = <<>>
    /\ bidx = 1
    /\ cycle = 0
    /\ drainedSets = <<>>
    /\ dispatchLog = <<>>
    /\ MediaSideIdle

Next ==
    \/ \E raw \in RawRequests : HandleWebhook(raw)
    \/ \E h \in handlers, o \in ApiOutcomes : HandleWebhookResume(h, o)
    \/ Tick

Spec == Init /\ [][Next]_vars

----------------------------------------------------------------------------
(* main.py: the message queue and the batch processor *)

\* what _add_to_queue is called with: a source and a media_data
QueueInputs ==
    { [source |-> "emby", md |-> MediaData("Episode", "Show", "", "1", "3", "", "", "", "", "Ep")],
      [source |-> "default", md |-> MediaData("Movie", "", "Film", "", "", "", "http://u1", "", "", "")],
      [source |-> "default", md |-> MediaData("Movie", "", "Film2", "", "", "", "u2", "", "", "")],
      [source |-> "ani-rss", md |-> MediaData("", "", "", "", "", "", "", "", "${title} ${season} ${episode}", "")] }

\* _add_to_queue awaits get_fallback_image when a media notification has no image
AwaitsFallbackImage(in) == in.source # "ani-rss" /\ in.md.image_url = ""

\* _add_to_queue lines 477-484: the payload is appended to the queue
AppendPayload(queue, payload) == Append(queue, payload)

\* _add_to_queue when it is awaited, up to its suspension in get_fallback_image or
\* to its end. After the append it awaits self._check_and_send_messages(), which
\* the class does not define: the coroutine ends there with AttributeError.
AddToQueue(in) ==
    /\ nItems < MaxItems
    /\ nItems' = nItems + 1
    /\ IF AwaitsFallbackImage(in)
       THEN /\ producers' = producers \cup {[id |-> nItems + 1, in |-> in]}
            /\ UNCHANGED message_queue
       ELSE /\ message_queue' = AppendPayload(message_queue,
                   MessagePayload(nItems + 1, in.md.image_url,
                                  GenerateMessageText(in.md, in.source), in.source, now))
            /\ UNCHANGED producers
    /\ UNCHANGED mediaSideVars
    /\ UNCHANGED <<ingressVars, cfg, bpc, messages, bidx, cycle, drainedSets, dispatchLog>>

\* _add_to_queue resumes with the fallback image ("" when none was found)
AddToQueueResume(p, image) ==
    /\ p \in producers
    /\ producers' = producers \ {p}
    /\ message_queue' = AppendPayload(message_queue,
           MessagePayload(p.id, image, GenerateMessageText(p.in.md, p.in.source),
                          p.in.source, now))
    /\ UNCHANGED mediaSideVars
    /\ UNCHANGED <<ingressVars, cfg, nItems, bpc, messages, bidx, cycle, drainedSets,
                   dispatchLog>>

\* str.lower() on the platform names of the model
Lower(name) == IF name = "AIOCQHTTP" THEN "aiocqhttp" ELSE name

\* MediaWebhookPlugin.supports_forward_messages
SupportsForwardMessages(platform_name) == Lower(platform_name) \in {"aiocqhttp"}

\* a dispatch decision that batches only above the minimum size
DispatchModeAboveMin(n, c) ==
    IF n <= c.batch_min_size THEN "individual"
    ELSE IF c.force_individual_send THEN "individual"
    ELSE IF SupportsForwardMessages(c.platform_name) THEN "batch"
    ELSE "individual"

\* process_message_queue lines 1810-1825: how the drained messages are sent
DispatchMode(n, c) ==
    IF n < c.batch_min_size THEN "individual"
    ELSE IF c.force_individual_send THEN "individual"
    ELSE IF SupportsForwardMessages(c.platform_name) THEN "batch"
    ELSE "individual"

\* process_message_queue line 1798: messages = self.message_queue.copy()
DrainCopy(queue) == queue

\* a drain that would copy the queue and not clear it
DrainKeep(queue) == queue

\* process_message_queue line 1799: self.message_queue.clear()
DrainClear(queue) == <<>>

\* Comp.Image.fromURL accepts http(s) URLs only; the try blocks around it
\* (lines 1844-1871, 1903-1930) catch what it raises
ContentBuilds(msg) ==
    msg.image_url = "" \/ msg.image_url \in {"http://u1", "fallback.jpg"}

RECURSIVE Reverse(_)
Reverse(seq) == IF seq = <<>> THEN <<>> ELSE Append(Reverse(Tail(seq)), Head(seq))

\* a node list that would be built from the last message to the first
ForwardNodesReversed(msgs) == Reverse(SelectSeq(msgs, ContentBuilds))

\* send_batch_messages lines 1841-1871: one node per message whose content builds
ForwardNodes(msgs) == SelectSeq(msgs, ContentBuilds)

\* a fallback that would resend only the messages that had a node
FallbackNodesOnly(msgs, nodes) == nodes

\* send_batch_messages lines 1884-1890: what is handed to send_individual_messages
\* when the forward send fails or no node was built
FallbackMessages(msgs, nodes) == msgs

Ids(msgs) == [i \in 1..Len(msgs) |-> msgs[i].id]

\* BaseAdapter.validate_message: the message has text
ValidateMessage(message) == Strip(message.message_text) # ""

\* NapCatAdapter.send_forward_messages lines 37-48: one forward node per valid
\* message, in the order of the list comprehension and of the loop
NapCatForwardNodes(msgs) == Ids(SelectSeq(msgs, ValidateMessage))

\* a dispatch, as the ghost log keeps it: sent tells whether context.send_message
\* was called, ok whether it returned without raising
Dispatch(c, kind, ids, sent, ok) ==
    [cycle |-> c, kind |-> kind, ids |-> ids, sent |-> sent, ok |-> ok]

\* a drain that would not look at the group id
ProcessMessageQueueWithoutGroup ==
    /\ bpc = "idle"
    /\ cycle < MaxCycles
    /\ message_queue # <<>>
    /\ messages' = DrainCopy(message_queue)
    /\ message_queue' = DrainClear(message_queue)
    /\ cycle' = cycle + 1
    /\ drainedSets' = Append(drainedSets, Ids(DrainCopy(message_queue)))
    /\ bpc' = DispatchMode(Len(DrainCopy(message_queue)), cfg)
    /\ bidx' = 1
    /\ UNCHANGED mediaSideVars
    /\ UNCHANGED <<ingressVars, cfg, producers, nItems, dispatchLog>>

\* start_batch_processor wakes up and process_message_queue drains the queue
\* (lines 1787-1825); it returns at once on an empty queue or without a group id
ProcessMessageQueue ==
    /\ bpc = "idle"
    /\ cycle < MaxCycles
    /\ message_queue # <<>>
    /\ cfg.group_id # ""
    /\ messages' = DrainCopy(message_queue)
    /\ message_queue' = DrainClear(message_queue)
    /\ cycle' = cycle + 1
    /\ drainedSets' = Append(drainedSets, Ids(DrainCopy(message_queue)))
    /\ bpc' = DispatchMode(Len(DrainCopy(message_queue)), cfg)
    /\ bidx' = 1
    /\ UNCHANGED mediaSideVars
    /\ UNCHANGED <<ingressVars, cfg, producers, nItems, dispatchLog>>

\* send_batch_messages: the forward send returns (ok) or raises
SendBatchMessages(ok) ==
    /\ bpc = "batch"
    /\ IF Len(messages) < cfg.batch_min_size
       THEN /\ bpc' = "individual"
            /\ UNCHANGED <<messages, dispatchLog>>
       ELSE LET nodes == ForwardNodes(messages)
                sent == nodes # <<>>
            IN  /\ dispatchLog' = Append(dispatchLog,
                       Dispatch(cycle, "batch", Ids(nodes), sent, sent /\ ok))
                /\ IF sent /\ ok
                   THEN /\ bpc' = "idle"
                        /\ messages' = <<>>
                   ELSE /\ bpc' = IF FallbackMessages(messages, nodes) = <<>>
                                  THEN "idle" ELSE "individual"
                        /\ messages' = FallbackMessages(messages, nodes)
    /\ bidx' = 1
    /\ UNCHANGED mediaSideVars
    /\ UNCHANGED <<ingressVars, cfg, message_queue, producers, nItems, cycle,
                   drainedSets>>

\* a send whose failure would end the batch processor task
SendIndividualEndsTask(ok) ==
    /\ bpc = "individual"
    /\ bidx <= Len(messages)
    /\ LET msg == messages[bidx]
           sent == ContentBuilds(msg)
       IN  /\ dispatchLog' = Append(dispatchLog,
                  Dispatch(cycle, "individual", <<msg.id>>, sent, sent /\ ok))
           /\ IF ~(sent /\ ok)
              THEN /\ bpc' = "ended"
                   /\ messages' = <<>>
                   /\ bidx' = 1
              ELSE IF bidx = Len(messages)
              THEN /\ bpc' = "idle"
                   /\ messages' = <<>>
                   /\ bidx' = 1
              ELSE /\ bidx' = bidx + 1
                   /\ UNCHANGED <<bpc, messages>>
    /\ UNCHANGED mediaSideVars
    /\ UNCHANGED <<ingressVars, cfg, message_queue, producers, nItems, cycle,
                   drainedSets>>

\* a send loop that would end at the first message whose send fails
SendIndividualStopsAtFailure(ok) ==
    /\ bpc = "individual"
    /\ bidx <= Len(messages)
    /\ LET msg == messages[bidx]
           sent == ContentBuilds(msg)
       IN  /\ dispatchLog' = Append(dispatchLog,
                  Dispatch(cycle, "individual", <<msg.id>>, sent, sent /\ ok))
           /\ IF bidx = Len(messages) \/ ~(sent /\ ok)
              THEN /\ bpc' = "idle"
                   /\ messages' = <<>>
                   /\ bidx' = 1
              ELSE /\ bidx' = bidx + 1
                   /\ UNCHANGED <<bpc, messages>>
    /\ UNCHANGED mediaSideVars
    /\ UNCHANGED <<ingressVars, cfg, message_queue, producers, nItems, cycle,
                   drainedSets>>

\* send_individual_messages: one pass of its loop body; the send returns (ok) or
\* raises, and a failure is logged and the loop goes on
SendIndividualMessage(ok) ==
    /\ bpc = "individual"
    /\ bidx <= Len(messages)
    /\ LET msg == messages[bidx]
           sent == ContentBuilds(msg)
       IN  dispatchLog' = Append(dispatchLog,
               Dispatch(cycle, "individual", <<msg.id>>, sent, sent /\ ok))
    /\ IF bidx = Len(messages)
       THEN /\ bpc' = "idle"
            /\ messages' = <<>>
            /\ bidx' = 1
       ELSE /\ bidx' = bidx + 1
            /\ UNCHANGED <<bpc, messages>>
    /\ UNCHANGED mediaSideVars
    /\ UNCHANGED <<ingressVars, cfg, message_queue, producers, nItems, cycle,
                   drainedSets>>

BatchConfigs ==
    {Config(g, n, f, p, TRUE) :
        g \in {"", "g1"}, n \in {2, 3}, f \in BOOLEAN,
        p \in {"aiocqhttp", "AIOCQHTTP", "telegram"}}

InitBatch ==
    /\ now = 0
    /\ request_cache = {}
    /\ handlers = {}
    /\ responses = <<>>
    /\ nRequests = 0
    /\ cfg \in BatchConfigs
    /\ message_queue = <<>>
    /\ producers = {}
    /\ nItems = 0
    /\ bpc = "idle"
    /\ messages = <<>>
    /\ bidx = 1
    /\ cycle = 0
    /\ drainedSets = <<>>
    /\ dispatchLog = <<>>
    /\ MediaSideIdle

NextBatch ==
    \/ \E in \in QueueInputs : AddToQueue(in)
    \/ \E p \in producers, image \in {"", "fallback.jpg"} : AddToQueueResume(p, image)
    \/ ProcessMessageQueue
    \/ \E ok \in BOOLEAN : SendBatchMessages(ok)
    \/ \E ok \in BOOLEAN : SendIndividualMessage(ok)

SpecBatch == InitBatch /\ [][NextBatch]_vars

\* a configuration with a target group
GroupConfigs == {Config("g1", 2, FALSE, "aiocqhttp", TRUE)}

InitBatchLive ==
    /\ now = 0
    /\ request_cache = {}
    /\ handlers = {}
    /\ responses = <<>>
    /\ nRequests = 0
    /\ cfg \in GroupConfigs
    /\ message_queue = <<>>
    /\ producers = {}
    /\ nItems = 0
    /\ bpc = "idle"
    /\ messages = <<>>
    /\ bidx = 1
    /\ cycle = 0
    /\ drainedSets = <<>>
    /\ dispatchLog = <<>>
    /\ MediaSideIdle

\* start_batch_processor is a task of its own (main.py line 190) whose loop
\* `while True: sleep; process_message_queue` catches every Exception (lines
\* 1777-1783), and a send either returns or raises (a timeout raises): the event
\* loop resumes the task whenever its await is over
SpecBatchLive ==
    /\ InitBatchLive
    /\ [][NextBatch]_vars
    /\ WF_vars(ProcessMessageQueue)
    /\ WF_vars(\E ok \in BOOLEAN : SendBatchMessages(ok))
    /\ WF_vars(\E ok \in BOOLEAN : SendIndividualMessage(ok))

----------------------------------------------------------------------------
(* media/: dicts, raw messages and the processors *)

\* A dict of the media/ pipeline is a record that has exactly the keys the dict holds.
\* d.get(k, default)
DictGet(d, k, default) == IF k \in DOMAIN d THEN d[k] ELSE default

\* the dict {}
IsEmptyDict(d) == DOMAIN d = {}

\* str(v) if v else "", for an int v (0, like "" and None, is falsy)
StrIfTruthy(v) == IF v = 0 THEN "" ELSE Str(v)

\* The raw messages handed to detect_and_process_raw_data: the parsed JSON body
\* (body "invalid": json.loads raises) and the User-Agent header
RawMsg(body, data, ua) == [body |-> body, data |-> data, ua |-> ua]

EmbyServer == [Url |-> "http://srv"]

MediaRaws ==
    { RawMsg("invalid", [text |-> "not json"], ""),
      RawMsg("json", [Item |-> [Type |-> "Episode", Name |-> "Ep", SeriesName |-> "Show",
                                ParentIndexNumber |-> 1, IndexNumber |-> 3],
                      Server |-> EmbyServer], ""),
      RawMsg("json", [Item |-> [Type |-> "Movie", Name |-> "Film", Id |-> "i1",
                                ImageTags |-> [Primary |-> "tag"]],
                      Server |-> EmbyServer], ""),
      RawMsg("json", [Item |-> [Type |-> "Episode", Name |-> "Ep", SeriesName |-> "Show",
                                ParentIndexNumber |-> 1, IndexNumber |-> 4, Id |-> "i2",
                                ImageTags |-> [Primary |-> "tag"]],
                      Server |-> EmbyServer], ""),
      RawMsg("json", [Item |-> [Type |-> "", Name |-> "Clip"], Server |-> EmbyServer], ""),
      RawMsg("json", [Item |-> [Type |-> "Movie", Name |-> " "], Server |-> EmbyServer], ""),
      RawMsg("json", [Type |-> "movie", title |-> "Film", image_url |-> "http://u1"], ""),
      RawMsg("json", [Type |-> "movie", title |-> "Film", image_url |-> "http://u2"], ""),
      RawMsg("json", [item_name |-> "Tape"], ""),
      RawMsg("json", [Type |-> "movie", title |-> "Reel"], "emby") }

\* BaseMediaProcessor.create_standard_data
CreateStandardData(item_type, series_name, item_name, season_number, episode_number, image_url, source_data) ==
    [item_type |-> item_type, series_name |-> series_name, item_name |-> item_name,
     season_number |-> StrIfTruthy(season_number),
     episode_number |-> StrIfTruthy(episode_number),
     year |-> "", overview |-> "", runtime |-> "", image_url |-> image_url,
     source_data |-> source_data]

\* BaseMediaProcessor.validate_standard_data
ValidateStandardData(data) ==
    LET series_name == Strip(DictGet(data, "series_name", ""))
        item_name == Strip(DictGet(data, "item_name", ""))
    IN  series_name # "" \/ item_name # ""

\* EmbyProcessor.can_handle
EmbyCanHandle(data, ua) == {"Item", "Server"} \subseteq DOMAIN data \/ ua = "emby"

\* JellyfinProcessor.can_handle
JellyfinCanHandle(data, ua) ==
    "ItemType" \in DOMAIN data \/ "SeriesName" \in DOMAIN data \/ ua = "jellyfin"

\* PlexProcessor.can_handle
PlexCanHandle(data, ua) ==
    "Metadata" \in DOMAIN data \/ "Player" \in DOMAIN data \/ ua = "plex"

\* EmbyProcessor.convert_to_standard (a missing int key reads as the falsy 0)
EmbyConvertToStandard(data) ==
    LET item == DictGet(data, "Item", <<>>)
        item_type == DictGet(item, "Type", "Unknown")
        item_name == DictGet(item, "Name", "")
        series_name ==
            IF item_type \in {"Episode", "Season"} THEN DictGet(item, "SeriesName", "")
            ELSE IF item_type = "Series" THEN item_name ELSE ""
        season_number ==
            IF item_type = "Episode" THEN DictGet(item, "ParentIndexNumber", 0)
            ELSE IF item_type = "Season" THEN DictGet(item, "IndexNumber", 0) ELSE 0
        episode_number ==
            IF item_type = "Episode" THEN DictGet(item, "IndexNumber", 0) ELSE 0
        server_url == DictGet(DictGet(data, "Server", <<>>), "Url", "")
        item_id == DictGet(item, "Id", "")
        image_url ==
            IF DictGet(DictGet(item, "ImageTags", <<>>), "Primary", "") # ""
               /\ server_url # "" /\ item_id # ""
            THEN server_url \o "/Items/" \o item_id \o "/Images/Primary"
            ELSE ""
    IN  CreateStandardData(item_type, series_name, item_name, season_number,
                           episode_number, image_url, "emby")

RECURSIVE FirstTruthy(_, _, _)
\* d.get(k1) or d.get(k2) or ... or d.get(kn, default), for str values
FirstTruthy(d, keys, default) ==
    IF Len(keys) = 1 THEN DictGet(d, Head(keys), default)
    ELSE IF DictGet(d, Head(keys), "") # "" THEN d[Head(keys)]
    ELSE FirstTruthy(d, Tail(keys), default)

\* GenericProcessor._normalize_type on the type names of the model
NormalizeType(item_type) ==
    CASE item_type = "" -> "Episode"
      [] item_type \in {"movie", "film", "Movie"} -> "Movie"
      [] item_type \in {"episode", "Episode"} -> "Episode"
      [] item_type = " " -> "Movie"
      [] OTHER -> item_type

\* GenericProcessor.convert_to_standard
GenericConvertToStandard(data) ==
    LET item_type == NormalizeType(
            FirstTruthy(data, <<"ItemType", "Type", "item_type", "type">>, "Episode"))
        item_name == FirstTruthy(data, <<"Name", "name", "title", "Title">>, "")
        series ==
            FirstTruthy(data, <<"SeriesName", "series_name", "show_name", "ShowName">>, "")
        series_name ==
            IF item_type \in {"Series", "Season"} /\ series = "" THEN item_name ELSE series
        image_url == FirstTruthy(data, <<"image_url", "ImageUrl", "poster_url",
                                         "PosterUrl", "thumbnail", "Thumbnail">>, "")
    IN  CreateStandardData(item_type, series_name, item_name,
                           DictGet(data, "season", 0), DictGet(data, "episode", 0),
                           image_url, "generic")

\* ProcessorManager.detect_source: the first processor of the list that can handle
\* the data; GenericProcessor, the last one, handles anything
DetectSource(data, ua) ==
    IF EmbyCanHandle(data, ua) THEN "emby"
    ELSE IF JellyfinCanHandle(data, ua) THEN "jellyfin"
    ELSE IF PlexCanHandle(data, ua) THEN "plex"
    ELSE "generic"

\* ProcessorManager.convert_to_standard: the processor's conversion, {} when the
\* result does not validate. The raw messages of the model are emby or generic ones.
ConvertToStandard(data, source) ==
    LET result == IF source = "emby" THEN EmbyConvertToStandard(data)
                  ELSE GenericConvertToStandard(data)
    IN  IF ValidateStandardData(result) THEN result ELSE <<>>

----------------------------------------------------------------------------
(* media/enrichment: the providers and the EnrichmentManager *)

\* name and priority of the providers (tmdb_provider.py, tvdb_provider.py,
\* bgm_provider.py)
TMDBProvider == [name |-> "TMDB", priority |-> 1]
TVDBProvider == [name |-> "TVDB", priority |-> 2]
BGMProvider == [name |-> "BGM.tv", priority |-> 3]

RECURSIVE InsertByPriority(_, _)
\* puts p after the entries of the sorted list whose priority is not greater
InsertByPriority(sorted, p) ==
    IF sorted = <<>> THEN <<p>>
    ELSE IF p.priority < Head(sorted).priority THEN <<p>> \o sorted
    ELSE <<Head(sorted)>> \o InsertByPriority(Tail(sorted), p)

RECURSIVE SortByPriority(_)
\* list.sort(key=lambda p: p.priority), a stable sort
SortByPriority(list) ==
    IF list = <<>> THEN <<>>
    ELSE InsertByPriority(SortByPriority(SubSeq(list, 1, Len(list) - 1)),
                          list[Len(list)])

\* EnrichmentManager._initialize_providers: the enrichment providers
InitializeProviders(config) ==
    SortByPriority((IF config.tmdb_api_key # "" THEN <<TMDBProvider>> ELSE <<>>) \o
                   (IF config.tvdb_api_key # "" THEN <<TVDBProvider>> ELSE <<>>) \o
                   <<BGMProvider>>)

EnrichConfigs == [tmdb_api_key : {"", "k1"}, tvdb_api_key : {"", "k2"}]

\* a provider looks an item up, and so awaits the network, only when it is an
\* Episode with the names it needs (tmdb_provider.py lines 50-62, tvdb_provider.py
\* lines 52-65)
CanEnrich(name, md) ==
    /\ DictGet(md, "item_type", "") = "Episode"
    /\ DictGet(md, "series_name", "") # ""
    /\ DictGet(md, "episode_number", "") # ""
    /\ name = "TVDB" => DictGet(md, "season_number", "") # ""

\* what a provider may do with a call: raise, return its input, or return an
\* enriched copy
ProviderOutcomes == {"raise", "unchanged", "enriched"}

\* the copy a provider returns when its lookup found the episode
EnrichedCopy(name, md) ==
    CASE name = "TMDB" ->
           [tmdb_enriched |-> TRUE, tmdb_tv_id |-> "tmdb-1",
            episode_title |-> "TmdbTitle"] @@ md
      [] name = "TVDB" ->
           [tvdb_enriched |-> TRUE, tvdb_series_id |-> "tvdb-1",
            episode_title |-> "TvdbTitle"] @@ md
      [] OTHER ->
           [bgm_enriched |-> TRUE, bgm_id |-> "bgm-1",
            episode_title |-> "BgmTitle"] @@ md

\* provider.enrich_media_data(md) when it does not raise
ProviderEnrich(name, md, outcome) ==
    IF outcome = "enriched" /\ CanEnrich(name, md) THEN EnrichedCopy(name, md) ELSE md

\* EnrichmentManager._generate_cache_key (the data of the model has no provider_ids;
\* the key is kept as the string that is hashed)
GenerateCacheKey(md) ==
    DictGet(md, "item_name", "") \o "_" \o DictGet(md, "item_type", "") \o "_" \o
    DictGet(md, "year", "")

\* a cache lookup that would answer from the table although the database raised
CacheGetIgnoresFailure(cache, key, t, dbOk) ==
    IF \E row \in cache : row.cache_key = key /\ row.expiry > t
    THEN (CHOOSE row \in cache : row.cache_key = key /\ row.expiry > t).data
    ELSE <<>>

\* a cache lookup that would never find a row
CacheGetNothing(cache, key, t, dbOk) == <<>>

\* CacheManager.get: the unexpired row of the key, None (the empty dict here) when
\* there is none or the database raises
CacheGet(cache, key, t, dbOk) ==
    IF dbOk /\ \E row \in cache : row.cache_key = key /\ row.expiry > t
    THEN (CHOOSE row \in cache : row.cache_key = key /\ row.expiry > t).data
    ELSE <<>>

\* CacheManager.set: INSERT OR REPLACE, nothing when the database raises
CacheSet(cache, key, data, t, dbOk) ==
    IF dbOk
    THEN {row \in cache : row.cache_key # key} \cup
         {[cache_key |-> key, data |-> data, expiry |-> t + CachePersistence]}
    ELSE cache

\* a cache write that would persist the whole enriched dict
CacheWholeData(enriched_data) == enriched_data

\* enrich_media_data lines 117-124: the fields that are cached (None is kept as
\* "None" for the str fields and as FALSE for the flags)
CacheData(enriched_data) ==
    [overview |-> DictGet(enriched_data, "overview", "None"),
     tmdb_id |-> DictGet(enriched_data, "tmdb_id", "None"),
     bgm_id |-> DictGet(enriched_data, "bgm_id", "None"),
     tmdb_enriched |-> DictGet(enriched_data, "tmdb_enriched", FALSE),
     bgm_enriched |-> DictGet(enriched_data, "bgm_enriched", FALSE),
     year |-> DictGet(enriched_data, "year", "None")]

\* enrich_media_data lines 90-91: media_data.update(cached_data) and the mark
UpdateFromCache(md, cached_data) ==
    [enriched_from_cache |-> TRUE] @@ cached_data @@ md

\* a CacheManager call as the ghost keeps it: get or set, its key, whether the
\* database answered, the time of the call and, for a set, the data written
CacheOp(op, key, data, t, dbOk) ==
    [op |-> op, key |-> key, data |-> data, time |-> t, ok |-> dbOk]

\* An enrich_media_data call: its argument, enriched_data, the position in the
\* provider list, the provider calls made so far (ghost) and the loop's flags
EnrichCall(id, md) ==
    [id |-> id, input |-> md, data |-> md, idx |-> 1, calls |-> <<>>,
     enriched |-> FALSE, done |-> FALSE, hit |-> FALSE]

\* the call after a cache hit (lines 87-92)
CacheHit(id, md, cached_data) ==
    [EnrichCall(id, md) EXCEPT !.data = UpdateFromCache(md, cached_data),
                               !.done = TRUE, !.hit = TRUE]

\* a provider call as the ghost trace keeps it
Called(name, outcome) == [name |-> name, outcome |-> outcome]

\* a loop that would go on to the next provider after one enriched the data
LoopGoesOn(c, name, result) ==
    IF result # c.data
    THEN [c EXCEPT !.data = result, !.enriched = TRUE, !.idx = @ + 1,
                   !.calls = Append(@, Called(name, "enriched"))]
    ELSE [c EXCEPT !.idx = @ + 1, !.calls = Append(@, Called(name, "unchanged"))]

\* a loop that would give up when a provider returns its input
LoopGivesUp(c, name, result) ==
    IF result # c.data
    THEN [c EXCEPT !.data = result, !.enriched = TRUE, !.done = TRUE,
                   !.calls = Append(@, Called(name, "enriched"))]
    ELSE [c EXCEPT !.done = TRUE, !.calls = Append(@, Called(name, "unchanged"))]

\* enrich_media_data lines 101-108: the provider returned result
LoopStep(c, name, result) ==
    IF result # c.data
    THEN [c EXCEPT !.data = result, !.enriched = TRUE, !.done = TRUE,
                   !.calls = Append(@, Called(name, "enriched"))]
    ELSE [c EXCEPT !.idx = @ + 1, !.calls = Append(@, Called(name, "unchanged"))]

\* enrich_media_data lines 110-112: the provider raised
LoopRaise(c, name) ==
    [c EXCEPT !.idx = @ + 1, !.calls = Append(@, Called(name, "raise"))]

\* one pass of the provider loop of call c over the list provs; the loop is over
\* after a break or after the last provider
ProviderStep(c, provs, outcome) ==
    LET name == provs[c.idx].name
        next == IF outcome = "raise" THEN LoopRaise(c, name)
                ELSE LoopStep(c, name, ProviderEnrich(name, c.data, outcome))
    IN  [next EXCEPT !.done = @ \/ next.idx > Len(provs)]

RECURSIVE RunLoop(_, _)
\* the provider loop from call c on, up to its end or to the next provider that
\* awaits the network; a provider that makes no lookup returns its input at once
RunLoop(c, provs) ==
    IF c.done \/ c.idx > Len(provs) THEN [c EXCEPT !.done = TRUE]
    ELSE IF CanEnrich(provs[c.idx].name, c.data) THEN c
    ELSE RunLoop(ProviderStep(c, provs, "unchanged"), provs)

\* enrich_media_data lines 115-125: the cache after the loop
CacheAfterEnrich(cache, c, t, dbOk) ==
    IF c.enriched
    THEN CacheSet(cache, GenerateCacheKey(c.input), CacheData(c.data), t, dbOk)
    ELSE cache

\* the media_data dicts enrich_media_data is called with: what the processors make
\* of the Emby messages
EnrichInputs ==
    {ConvertToStandard(r.data, DetectSource(r.data, r.ua)) :
        r \in {m \in MediaRaws :
                 /\ m.body = "json"
                 /\ "Item" \in DOMAIN m.data
                 /\ ~IsEmptyDict(ConvertToStandard(m.data, DetectSource(m.data, m.ua)))}}

\* a finished enrichment, as the ghost log keeps it
Enriched(rev, input, output, calls, hit) ==
    [rev |-> rev, input |-> input, output |-> output, calls |-> calls, hit |-> hit]

\* EnrichmentManager.enrich_media_data, up to the first provider await or, on a
\* cache hit or when no provider makes a lookup, to its return
EnrichMediaData(md, dbOk) ==
    /\ nEnrich < MaxEnrich
    /\ nEnrich' = nEnrich + 1
    /\ LET cached_data == CacheGet(media_cache, GenerateCacheKey(md), now, dbOk)
       IN  IF ~IsEmptyDict(cached_data)
           THEN /\ enrich_log' = <<Enriched("manager", md,
                                      CacheHit(nEnrich + 1, md, cached_data).data,
                                      <<>>, TRUE)>>
                /\ UNCHANGED enrich_calls
           ELSE LET c == RunLoop(EnrichCall(nEnrich + 1, md), providers)
                IN  IF c.done
                    THEN /\ enrich_log' = <<Enriched("manager", md, c.data, c.calls,
                                                     FALSE)>>
                         /\ UNCHANGED enrich_calls
                    ELSE /\ Cardinality(enrich_calls) < MaxInFlight
                         /\ enrich_calls' = enrich_calls \cup {c}
                         /\ enrich_log' = <<>>
    /\ cache_ops' = <<CacheOp("get", GenerateCacheKey(md), <<>>, now, dbOk)>>
    /\ UNCHANGED <<providers, media_cache>>
    /\ UNCHANGED <<ingressVars, batchVars, rateVars, probeVars, mediaVars, hashVars>>

\* enrich_media_data resumes: the awaited provider returned or raised; after the
\* loop the result is cached and returned
EnrichMediaDataResume(c, outcome, dbOk) ==
    /\ c \in enrich_calls
    /\ LET next == RunLoop(ProviderStep(c, providers, outcome), providers)
       IN  IF next.done
           THEN /\ enrich_calls' = enrich_calls \ {c}
                /\ media_cache' = CacheAfterEnrich(media_cache, next, now, dbOk)
                /\ enrich_log' = <<Enriched("manager", next.input, next.data,
                                            next.calls, FALSE)>>
                /\ cache_ops' = IF next.enriched
                                THEN <<CacheOp("set", GenerateCacheKey(next.input),
                                               CacheData(next.data), now, dbOk)>>
                                ELSE <<>>
           ELSE /\ enrich_calls' = (enrich_calls \ {c}) \cup {next}
                /\ enrich_log' = <<>>
                /\ cache_ops' = <<>>
                /\ UNCHANGED media_cache
    /\ UNCHANGED <<providers, nEnrich>>
    /\ UNCHANGED <<ingressVars, batchVars, rateVars, probeVars, mediaVars, hashVars>>

\* the media_data dicts main.py hands to enrich_media_data_with_external_apis
MainEnrichInputs ==
    {[Convert(raw.source, raw) EXCEPT !.image_url = image] :
        raw \in {r \in RawRequests : r.source = "emby" /\ r.Episode # 4},
        image \in {"", "http://u1"}}

\* the provider calls of main.py, as the ghost trace keeps them
MainCalls(md, o, c) ==
    [i \in DOMAIN ProviderCalls(md, o, c) |->
        LET name == ProviderCalls(md, o, c)[i]
        IN  Called(name, IF EnrichMediaDataWithExternalApis(md, o, c).enriched = name
                         THEN "enriched" ELSE "unchanged")]

\* MediaWebhookPlugin.enrich_media_data_with_external_apis, from call to return
EnrichWithExternalApis(md, o) ==
    /\ nEnrich < MaxEnrich
    /\ nEnrich' = nEnrich + 1
    /\ enrich_log' = <<Enriched("main", md, EnrichMediaDataWithExternalApis(md, o, cfg),
                                MainCalls(md, o, cfg), FALSE)>>
    /\ cache_ops' = <<>>
    /\ UNCHANGED <<providers, media_cache, enrich_calls>>
    /\ UNCHANGED <<ingressVars, batchVars, rateVars, probeVars, mediaVars, hashVars>>

\* time passes between two enrichment steps
EnrichTick ==
    /\ now < MaxTime
    /\ now' = now + 1
    /\ enrich_log' = <<>>
    /\ cache_ops' = <<>>
    /\ UNCHANGED <<request_cache, handlers, responses, nRequests, batchVars, rateVars, probeVars>>
    /\ UNCHANGED <<providers, media_cache, enrich_calls, nEnrich, mediaVars, hashVars>>

InitEnrich ==
    /\ now = 0
    /\ request_cache = {}
    /\ handlers = {}
    /\ responses = <<>>
    /\ nRequests = 0
    /\ \E config \in EnrichConfigs :
          /\ providers = InitializeProviders(config)
          /\ cfg = Config("g1", 3, FALSE, "aiocqhttp", config.tmdb_api_key # "")
    /\ message_queue = <<>>
    /\ producers = {}
    /\ nItems = 0
    /\ bpc = "idle"
    /\ messages = <<>>
    /\ bidx = 1
    /\ cycle = 0
    /\ drainedSets = <<>>
    /\ dispatchLog = <<>>
    /\ media_cache = {}
    /\ enrich_calls = {}
    /\ enrich_log = <<>>
    /\ nEnrich = 0
    /\ cache_ops = <<>>
    /\ RateIdle
    /\ ProbeIdle
    /\ dp_request_cache = {}
    /\ dp_tasks = {}
    /\ dp_results = <<>>
    /\ nRaw = 0
    /\ pair = <<>>
    /\ fps = <<>>

NextEnrich ==
    \/ \E md \in EnrichInputs, dbOk \in BOOLEAN : EnrichMediaData(md, dbOk)
    \/ \E c \in enrich_calls, outcome \in ProviderOutcomes, dbOk \in BOOLEAN :
          EnrichMediaDataResume(c, outcome, dbOk)
    \/ \E md \in MainEnrichInputs, o \in ApiOutcomes : EnrichWithExternalApis(md, o)
    \/ EnrichTick

SpecEnrich == InitEnrich /\ [][NextEnrich]_vars

----------------------------------------------------------------------------
(* media/: MediaHandler.process_media_data and MediaDataProcessor *)

\* MediaHandler.generate_message_text_without_image_line, reduced to the fields it
\* prints: the title and main section, and the mark of the data source
MessageTextWithoutImageLine(md) ==
    DictGet(md, "item_type", "") \o "|" \o DictGet(md, "series_name", "") \o "|" \o
    DictGet(md, "season_number", "") \o "|" \o DictGet(md, "episode_number", "") \o
    "|" \o DictGet(md, "item_name", "") \o
    (IF DictGet(md, "tmdb_enriched", FALSE) THEN "|TMDB"
     ELSE IF DictGet(md, "bgm_enriched", FALSE) THEN "|BGM.TV" ELSE "")

\* MediaHandler.create_message_payload
CreateMessagePayload(md, source, t) ==
    [image_url |-> DictGet(md, "image_url", ""),
     message_text |-> MessageTextWithoutImageLine(md),
     source |-> source, media_data |-> md, timestamp |-> t]

\* MediaHandler.create_fallback_payload
CreateFallbackPayload(raw_data, source, t) ==
    [image_url |-> "", message_text |-> "media notification from " \o source,
     source |-> source, media_data |-> raw_data, timestamp |-> t, fallback |-> TRUE]

\* MediaDataProcessor.calculate_standard_hash: the dict that is dumped and hashed,
\* the payload without its own image_url, timestamp and runtime_ticks keys
CalculatePayloadHash(payload) ==
    [k \in DOMAIN payload \ {"image_url", "timestamp", "runtime_ticks"} |-> payload[k]]

\* MediaDataProcessor.cleanup_expired_cache
CleanupExpiredPayloads(cache, current_time) ==
    {e \in cache : ~(current_time > e.expire)}

\* MediaDataProcessor.is_duplicate_request: the value it returns
IsDuplicatePayload(cache, payload, current_time) ==
    \E e \in CleanupExpiredPayloads(cache, current_time) :
        e.hash = CalculatePayloadHash(payload)

\* MediaDataProcessor.is_duplicate_request: the cache it leaves
PayloadCacheAfterCheck(cache, payload, current_time) ==
    IF IsDuplicatePayload(cache, payload, current_time)
    THEN CleanupExpiredPayloads(cache, current_time)
    ELSE CleanupExpiredPayloads(cache, current_time) \cup
         {[hash |-> CalculatePayloadHash(payload), expire |-> current_time + CacheTtl]}

\* MediaHandler.validate_media_data on the media_data of a payload
ValidateMediaData(payload) == ValidateStandardData(payload.media_data)

\* what detect_and_process_raw_data does with the payload of process_media_data
\* (lines 124-138): "invalid" and "duplicate" return None, "media" returns the payload
PayloadOutcome(cache, payload, current_time) ==
    IF ~ValidateMediaData(payload) THEN "invalid"
    ELSE IF IsDuplicatePayload(cache, payload, current_time) THEN "duplicate"
    ELSE "media"

\* a return of detect_and_process_raw_data, as the ghost log keeps it
Returned(id, outcome, payload) == [id |-> id, outcome |-> outcome, payload |-> payload]

\* detect_and_process_raw_data lines 124-138, from the payload to the return
ReturnPayload(id, payload) ==
    /\ dp_results' = <<Returned(id, PayloadOutcome(dp_request_cache, payload, now),
             IF PayloadOutcome(dp_request_cache, payload, now) = "media"
             THEN [message_type |-> "media"] @@ payload ELSE payload)>>
    /\ dp_request_cache' =
          IF ValidateMediaData(payload)
          THEN PayloadCacheAfterCheck(dp_request_cache, payload, now)
          ELSE dp_request_cache

\* get_media_image reaches the network only for data with a series name
\* (tmdb_provider.py lines 86-92, bgm_provider.py lines 49-52)
ImageLookupAwaits(md) ==
    DictGet(md, "image_url", "") = "" /\ DictGet(md, "series_name", "") # ""

\* A detect_and_process_raw_data task suspended in an await of process_media_data
MediaTask(id, source, stage, call) ==
    [id |-> id, source |-> source, stage |-> stage, call |-> call]

\* process_media_data lines 62-77 and what follows in detect_and_process_raw_data:
\* the task with enriched data either awaits the image lookup or returns
AfterEnrichment(id, source, call) ==
    IF ImageLookupAwaits(call.data)
    THEN /\ Cardinality({t \in dp_tasks : t.id # id}) < MaxInFlight
         /\ dp_tasks' = {t \in dp_tasks : t.id # id} \cup
                        {MediaTask(id, source, "image", call)}
         /\ dp_results' = <<>>
         /\ UNCHANGED dp_request_cache
    ELSE /\ dp_tasks' = {t \in dp_tasks : t.id # id}
         /\ ReturnPayload(id, CreateMessagePayload(call.data, source, now))

\* detect_and_process_raw_data, from the raw message to its first await or return
DetectAndProcessRawData(raw, dbOk) ==
    /\ nRaw < MaxRaw
    /\ nRaw' = nRaw + 1
    /\ LET id == nRaw + 1
           source == DetectSource(raw.data, raw.ua)
           md == ConvertToStandard(raw.data, source)
           cached_data == CacheGet(media_cache, GenerateCacheKey(md), now, dbOk)
       IN  IF raw.body = "invalid"
           THEN /\ dp_results' = <<Returned(id, "parse_error", <<>>)>>
                /\ UNCHANGED <<dp_request_cache, dp_tasks>>
           ELSE IF IsEmptyDict(md)
           THEN /\ ReturnPayload(id, CreateFallbackPayload(raw.data, source, now))
                /\ UNCHANGED dp_tasks
           ELSE IF ~IsEmptyDict(cached_data)
           THEN AfterEnrichment(id, source, CacheHit(id, md, cached_data))
           ELSE LET c == RunLoop(EnrichCall(id, md), providers)
                IN  IF c.done
                    THEN AfterEnrichment(id, source, c)
                    ELSE /\ Cardinality(dp_tasks) < MaxInFlight
                         /\ dp_tasks' = dp_tasks \cup {MediaTask(id, source, "enrich", c)}
                         /\ dp_results' = <<>>
                         /\ UNCHANGED dp_request_cache
    /\ UNCHANGED <<ingressVars, batchVars, rateVars, probeVars, enrichVars, hashVars>>

\* the task resumes in the provider loop of enrich_media_data: the awaited provider
\* returned or raised
ProviderReturns(t, outcome, dbOk) ==
    /\ t \in dp_tasks
    /\ t.stage = "enrich"
    /\ LET next == RunLoop(ProviderStep(t.call, providers, outcome), providers)
       IN  IF next.done
           THEN /\ media_cache' = CacheAfterEnrich(media_cache, next, now, dbOk)
                /\ AfterEnrichment(t.id, t.source, next)
           ELSE /\ dp_tasks' = (dp_tasks \ {t}) \cup {[t EXCEPT !.call = next]}
                /\ dp_results' = <<>>
                /\ UNCHANGED <<media_cache, dp_request_cache>>
    /\ UNCHANGED <<ingressVars, batchVars, rateVars, probeVars, providers, enrich_calls, enrich_log, nEnrich,
                   cache_ops, nRaw, hashVars>>

\* the task resumes after get_media_image with the image found ("" when none)
ImageReturns(t, image_url) ==
    /\ t \in dp_tasks
    /\ t.stage = "image"
    /\ dp_tasks' = dp_tasks \ {t}
    /\ ReturnPayload(t.id, CreateMessagePayload(
           IF image_url # "" THEN [t.call.data EXCEPT !.image_url = image_url]
           ELSE t.call.data, t.source, now))
    /\ UNCHANGED <<ingressVars, batchVars, rateVars, probeVars, enrichVars, nRaw, hashVars>>

\* time passes between two steps of the pipeline
MediaTick ==
    /\ now < MaxTime
    /\ now' = now + 1
    /\ dp_results' = <<>>
    /\ UNCHANGED <<request_cache, handlers, responses, nRequests, batchVars, rateVars, probeVars>>
    /\ UNCHANGED <<enrichVars, dp_request_cache, dp_tasks, nRaw, hashVars>>

InitMedia ==
    /\ now = 0
    /\ request_cache = {}
    /\ handlers = {}
    /\ responses = <<>>
    /\ nRequests = 0
    /\ cfg \in IngressConfigs
    /\ message_queue = <<>>
    /\ producers = {}
    /\ nItems = 0
    /\ bpc = "idle"
    /\ messages = <<>>
    /\ bidx = 1
    /\ cycle = 0
    /\ drainedSets = <<>>
    /\ dispatchLog = <<>>
    /\ providers = InitializeProviders(
                      [tmdb_api_key |-> IF cfg.tmdb_api_key THEN "k1" ELSE "",
                       tvdb_api_key |-> ""])
    /\ media_cache = {}
    /\ enrich_calls = {}
    /\ enrich_log = <<>>
    /\ nEnrich = 0
    /\ cache_ops = <<>>
    /\ RateIdle
    /\ ProbeIdle
    /\ dp_request_cache = {}
    /\ dp_tasks = {}
    /\ dp_results = <<>>
    /\ nRaw = 0
    /\ pair = <<>>
    /\ fps = <<>>

NextMedia ==
    \/ \E raw \in MediaRaws, dbOk \in BOOLEAN : DetectAndProcessRawData(raw, dbOk)
    \/ \E t \in dp_tasks, outcome \in ProviderOutcomes, dbOk \in BOOLEAN :
          ProviderReturns(t, outcome, dbOk)
    \/ \E t \in dp_tasks, image_url \in {"", "http://img"} : ImageReturns(t, image_url)
    \/ MediaTick

SpecMedia == InitMedia /\ [][NextMedia]_vars

----------------------------------------------------------------------------
(* The fingerprint functions on pairs of notifications *)

ImageUrls == {"", "http://u1", "http://u2"}

\* media_data dicts as main.py fingerprints them: what handle_webhook makes of the
\* webhook bodies
MainNotifications ==
    {Convert(raw.source, raw) : raw \in {r \in RawRequests : r.body \in {"json", "template"}}}

\* media_data dicts as the media/ pipeline fingerprints them inside a payload: what
\* the processors make of the raw messages, and their enriched copies
MediaNotifications ==
    LET converted ==
          {ConvertToStandard(r.data, DetectSource(r.data, r.ua)) :
              r \in {m \in MediaRaws :
                 /\ m.body = "json"
                 /\ ~IsEmptyDict(ConvertToStandard(m.data, DetectSource(m.data, m.ua)))}}
    IN  converted \cup {EnrichedCopy("TMDB", md) : md \in {d \in converted :
                                                             CanEnrich("TMDB", d)}}

\* a pair of notifications that differ at most in the image URL and the timestamp
Pair(rev, n1, n2, t1, t2) == [rev |-> rev, n1 |-> n1, n2 |-> n2, t1 |-> t1, t2 |-> t2]

\* main.py: the fingerprints _calculate_request_hash computes for the pair
FingerprintsOfMain ==
    /\ pair.rev = "main"
    /\ fps = <<>>
    /\ fps' = <<CalculateRequestHash([pair.n1 EXCEPT !.timestamp = Str(pair.t1)]),
                CalculateRequestHash([pair.n2 EXCEPT !.timestamp = Str(pair.t2)])>>
    /\ UNCHANGED <<ingressVars, batchVars, rateVars, probeVars, enrichVars, mediaVars, pair>>

\* media/: the fingerprints calculate_request_hash computes for the payloads
\* create_message_payload builds from the pair
FingerprintsOfPayloads ==
    /\ pair.rev = "media"
    /\ fps = <<>>
    /\ fps' = <<CalculatePayloadHash(CreateMessagePayload(pair.n1, "emby", pair.t1)),
                CalculatePayloadHash(CreateMessagePayload(pair.n2, "emby", pair.t2))>>
    /\ UNCHANGED <<ingressVars, batchVars, rateVars, probeVars, enrichVars, mediaVars, pair>>

InitHash ==
    /\ now = 0
    /\ request_cache = {}
    /\ handlers = {}
    /\ responses = <<>>
    /\ nRequests = 0
    /\ cfg \in {Config("g1", 3, FALSE, "aiocqhttp", TRUE)}
    /\ message_queue = <<>>
    /\ producers = {}
    /\ nItems = 0
    /\ bpc = "idle"
    /\ messages = <<>>
    /\ bidx = 1
    /\ cycle = 0
    /\ drainedSets = <<>>
    /\ dispatchLog = <<>>
    /\ providers = <<>>
    /\ media_cache = {}
    /\ enrich_calls = {}
    /\ enrich_log = <<>>
    /\ nEnrich = 0
    /\ cache_ops = <<>>
    /\ RateIdle
    /\ ProbeIdle
    /\ dp_request_cache = {}
    /\ dp_tasks = {}
    /\ dp_results = <<>>
    /\ nRaw = 0
    /\ fps = <<>>
    /\ \/ \E n \in MainNotifications, image \in ImageUrls, t1, t2 \in 0..MaxTime :
             pair = Pair("main", n, [n EXCEPT !.image_url = image], t1, t2)
       \/ \E n \in MediaNotifications, image \in ImageUrls, t1, t2 \in 0..MaxTime :
             pair = Pair("media", n, [n EXCEPT !.image_url = image], t1, t2)

NextHash ==
    \/ FingerprintsOfMain
    \/ FingerprintsOfPayloads

SpecHash == InitHash /\ [][NextHash]_vars

----------------------------------------------------------------------------
(* The providers' rate limit: BaseProvider._rate_limit, TMDBProvider._rate_limit, *)
(* TMDBEnricher.rate_limit (the same code in each class)                        *)

\* the enrichment tasks that may be inside a provider at the same time
RateTasks == 1..MaxRateTasks

\* an outbound request as the ghost log keeps it
Outbound(task, p, t) == [task |-> task, provider |-> p, time |-> t]

\* _rate_limit after the sleep, or without one: self.last_request_time = time.time(),
\* and the caller starts its request
StartRequest(task, p) ==
    /\ last_request_time' = [last_request_time EXCEPT ![p] = now]
    /\ requests' = Append(requests, Outbound(task, p, now))

\* a task calls _rate_limit of provider p: it reads the clock and last_request_time
\* and either goes to sleep for the rest of the interval or starts its request
RateLimit(task, p) ==
    /\ Len(requests) + Cardinality(sleepers) < MaxOutbound
    /\ \A sl \in sleepers : sl.task # task
    /\ LET elapsed == now - last_request_time[p]
       IN  IF elapsed < RequestInterval(p)
           THEN /\ sleepers' = sleepers \cup
                       {[task |-> task, provider |-> p,
                         wake |-> now + (RequestInterval(p) - elapsed)]}
                /\ UNCHANGED <<last_request_time, requests>>
           ELSE /\ StartRequest(task, p)
                /\ UNCHANGED sleepers
    /\ UNCHANGED <<ingressVars, batchVars, enrichVars, mediaVars, hashVars, probeVars>>

\* asyncio.sleep is over for a sleeping task: it sets last_request_time and starts
\* its request
RateLimitWakes(sl) ==
    /\ sl \in sleepers
    /\ sl.wake <= now
    /\ sleepers' = sleepers \ {sl}
    /\ StartRequest(sl.task, sl.provider)
    /\ UNCHANGED <<ingressVars, batchVars, enrichVars, mediaVars, hashVars, probeVars>>

\* the clock advances
RateTick ==
    /\ now < MaxTime
    /\ now' = now + 1
    /\ UNCHANGED <<request_cache, handlers, responses, nRequests, batchVars>>
    /\ UNCHANGED <<enrichVars, mediaVars, hashVars, rateVars, probeVars>>

InitRate ==
    /\ now = 0
    /\ request_cache = {}
    /\ handlers = {}
    /\ responses = <<>>
    /\ nRequests = 0
    /\ cfg \in IngressConfigs
    /\ message_queue = <<>>
    /\ producers = {}
    /\ nItems = 0
    /\ bpc = "idle"
    /\ messages = <<>>
    /\ bidx = 1
    /\ cycle = 0
    /\ drainedSets = <<>>
    /\ dispatchLog = <<>>
    /\ MediaSideIdle

NextRate ==
    \/ \E task \in RateTasks, p \in RateProviders : RateLimit(task, p)
    \/ \E sl \in sleepers : RateLimitWakes(sl)
    \/ RateTick

SpecRate == InitRate /\ [][NextRate]_vars

----------------------------------------------------------------------------
(* Source detection: ProcessorManager.detect_source, main.py                 *)
(* detect_notification_source and media_handler.py detect_media_source       *)

\* the header values of the model
UserAgents == {"Emby Server/4.8", "Jellyfin-Server/10.9", "PlexMediaServer/1.40",
               "ani-rss/2.0", "curl/8.5"}

\* the lower-case markers the detectors look for that text.lower() contains
MarkersOf(text) ==
    CASE text = "Emby Server/4.8" -> {"emby", "emby server"}
      [] text = "Jellyfin-Server/10.9" -> {"jellyfin"}
      [] text = "PlexMediaServer/1.40" -> {"plex"}
      [] text = "ani-rss/2.0" -> {"ani-rss"}
      [] text = "MediaBrowser Token=abc" -> {"mediabrowser"}
      [] OTHER -> {}

\* marker in text.lower()
Has(text, marker) == marker \in MarkersOf(text)

\* dict(request.headers): the header names keep the case the client sent
DetectHeaders ==
    {<<>>} \cup {(k :> ua) : k \in {"User-Agent", "user-agent"}, ua \in UserAgents}
           \cup {("authorization" :> "MediaBrowser Token=abc")}

\* A parsed JSON body: its kind ("object", "array", "number", "string"), the dict
\* of an object, and the service names that str(data).lower() contains
JsonBody(kind, data, text) == [kind |-> kind, data |-> data, text |-> text]

DetectBodies ==
    { JsonBody("object", [Item |-> [Type |-> "Movie", Name |-> "Film"],
                          Server |-> EmbyServer], {}),
      JsonBody("object", [Title |-> "New", Event |-> "library.new",
                          Item |-> [ServerId |-> "s1", Id |-> "i1", Type |-> "Movie",
                                    Name |-> "Film"],
                          Server |-> EmbyServer], {}),
      JsonBody("object", [ItemType |-> "Episode", SeriesName |-> "Show", Name |-> "Ep"], {}),
      JsonBody("object", [Metadata |-> [title |-> "Film"], Player |-> [title |-> "tv"]], {}),
      JsonBody("object", [title |-> "Film", Type |-> "movie"], {}),
      JsonBody("object", [server_name |-> "home"], {}),
      JsonBody("object", [eventType |-> "Grab", instanceName |-> "Sonarr"], {"sonarr"}),
      JsonBody("object", [meassage |-> <<[type |-> "text", data |-> [text |-> "new"]]>>], {}),
      JsonBody("object", <<>>, {}),
      JsonBody("array", <<>>, {}),
      JsonBody("number", <<>>, {}),
      JsonBody("string", <<>>, {}) }

\* the marker the processors' can_handle finds in headers.get("User-Agent", "").lower()
ProcessorUa(headers) ==
    LET user_agent == DictGet(headers, "User-Agent", "")
    IN  IF Has(user_agent, "emby") THEN "emby"
        ELSE IF Has(user_agent, "jellyfin") THEN "jellyfin"
        ELSE IF Has(user_agent, "plex") THEN "plex"
        ELSE ""

\* ProcessorManager.detect_source on a parsed body: `"Item" in data` raises
\* TypeError for a number, which the except clause turns into "generic"; a list or
\* a str has none of the keys
ManagerDetectSource(body, headers) ==
    IF body.kind = "number" THEN "generic"
    ELSE DetectSource(IF body.kind = "object" THEN body.data ELSE <<>>,
                      ProcessorUa(headers))

\* MediaWebhookPlugin.is_emby_data
IsEmbyData(data) ==
    LET emby_fields == {"Title", "Description", "Date", "Event", "Item", "Server"}
        emby_item_fields == {"ServerId", "Id", "Type", "Name"}
        item_data == DictGet(data, "Item", <<>>)
    IN  /\ Cardinality(emby_fields \cap DOMAIN data) >= 4
        /\ Cardinality(emby_item_fields \cap DOMAIN item_data) >= 3

\* MediaWebhookPlugin.is_ani_rss_message_format
IsAniRssMessageFormat(data) ==
    /\ "meassage" \in DOMAIN data
    /\ \E i \in DOMAIN data.meassage :
          /\ {"type", "data"} \subseteq DOMAIN data.meassage[i]
          /\ data.meassage[i].type \in {"image", "text"}

\* MediaWebhookPlugin.is_ani_rss_data
IsAniRssConfigData(data) ==
    Cardinality({"notificationTemplate", "notificationType", "webHookMethod",
                 "webHookUrl", "webHookBody", "statusList"} \cap DOMAIN data) >= 3

\* the first service name of the list that str(data).lower() contains, "" when none
FirstNamed(text, names) ==
    IF \E i \in DOMAIN names : names[i] \in text
    THEN names[CHOOSE i \in DOMAIN names :
                   /\ names[i] \in text
                   /\ \A j \in 1..(i - 1) : names[j] \notin text]
    ELSE ""

\* MediaWebhookPlugin.detect_notification_source: the tag it returns, or "raise"
\* when it raises (data.get and `field in data` on a body that is no dict)
DetectNotificationSource(body, headers) ==
    LET user_agent == DictGet(headers, "user-agent", "")
        data == body.data
        named == FirstNamed(body.text, <<"jellyfin", "emby", "plex", "sonarr", "radarr",
                                         "overseerr", "tautulli">>)
    IN  IF Has(user_agent, "emby server") THEN "emby"
        ELSE IF Has(user_agent, "jellyfin") THEN "jellyfin"
        ELSE IF Has(user_agent, "plex") THEN "plex"
        ELSE IF Has(user_agent, "ani-rss") THEN "ani-rss"
        ELSE IF body.kind # "object" THEN "raise"
        ELSE IF IsEmbyData(data) THEN "emby"
        ELSE IF IsAniRssMessageFormat(data) THEN "ani-rss"
        ELSE IF IsAniRssConfigData(data) THEN "ani-rss"
        ELSE IF named # "" THEN named
        ELSE IF DictGet(data, "server_name", "") # ""
                \/ DictGet(data, "server_version", "") # "" THEN "jellyfin"
        ELSE IF DictGet(data, "application", "") = "Emby" THEN "emby"
        ELSE IF DictGet(data, "product", "") = "Plex" THEN "plex"
        ELSE "default"

\* MediaHandler.detect_auth_type (media_handler.py), on the lower-cased header
DetectAuthType(authorization) ==
    IF authorization = "" THEN ""
    ELSE IF Has(authorization, "mediabrowser") \/ Has(authorization, "emby") THEN "emby"
    ELSE IF Has(authorization, "jellyfin") THEN "jellyfin"
    ELSE IF Has(authorization, "plex") THEN "plex"
    ELSE ""

\* MediaHandler.detect_source_from_headers (media_handler.py)
DetectSourceFromHeaders(headers) ==
    IF DictGet(headers, "x-plex-token", "") # "" THEN "plex"
    ELSE IF DictGet(headers, "x-emby-token", "") # "" THEN "emby"
    ELSE IF DictGet(headers, "x-mediabrowser-token", "") # ""
    THEN (IF Has(DictGet(headers, "user-agent", ""), "emby") THEN "emby" ELSE "jellyfin")
    ELSE IF Has(DictGet(headers, "referer", ""), "emby") THEN "emby"
    ELSE IF Has(DictGet(headers, "referer", ""), "jellyfin") THEN "jellyfin"
    ELSE IF Has(DictGet(headers, "referer", ""), "plex") THEN "plex"
    ELSE "unknown"

\* MediaHandler.detect_media_source (media_handler.py): `"Item" in data` raises for a
\* number and the except clause returns "unknown"
DetectMediaSource(body, headers) ==
    LET user_agent == DictGet(headers, "user-agent", "")
        auth_type == DetectAuthType(DictGet(headers, "authorization", ""))
        data == body.data
    IN  IF Has(user_agent, "emby server") THEN "emby"
        ELSE IF Has(user_agent, "jellyfin") THEN "jellyfin"
        ELSE IF Has(user_agent, "plex") THEN "plex"
        ELSE IF auth_type # "" THEN auth_type
        ELSE IF body.kind = "number" THEN "unknown"
        ELSE IF {"Item", "Server"} \subseteq DOMAIN data THEN "emby"
        ELSE IF "ItemType" \in DOMAIN data \/ "SeriesName" \in DOMAIN data THEN "jellyfin"
        ELSE IF "Metadata" \in DOMAIN data \/ "Player" \in DOMAIN data THEN "plex"
        ELSE DetectSourceFromHeaders(headers)

\* the inputs of the detectors
DetectProbes ==
    {[fn |-> "detect", body |-> b, headers |-> h] : b \in DetectBodies, h \in DetectHeaders}

\* what a detector returned, with the detector's name
Detected(detector, source) == [fn |-> "detect", detector |-> detector, source |-> source]

\* ProcessorManager.detect_source is applied to the input
DetectSourceStep ==
    /\ probe.fn = "detect"
    /\ verdict.fn = "none"
    /\ verdict' = Detected("ProcessorManager", ManagerDetectSource(probe.body, probe.headers))
    /\ UNCHANGED <<ingressVars, batchVars, enrichVars, mediaVars, hashVars, rateVars, probe>>

\* MediaWebhookPlugin.detect_notification_source is applied to the input
DetectNotificationSourceStep ==
    /\ probe.fn = "detect"
    /\ verdict.fn = "none"
    /\ verdict' = Detected("MediaWebhookPlugin",
                           DetectNotificationSource(probe.body, probe.headers))
    /\ UNCHANGED <<ingressVars, batchVars, enrichVars, mediaVars, hashVars, rateVars, probe>>

\* MediaHandler.detect_media_source (media_handler.py) is applied to the input
DetectMediaSourceStep ==
    /\ probe.fn = "detect"
    /\ verdict.fn = "none"
    /\ verdict' = Detected("MediaHandler", DetectMediaSource(probe.body, probe.headers))
    /\ UNCHANGED <<ingressVars, batchVars, enrichVars, mediaVars, hashVars, rateVars, probe>>

----------------------------------------------------------------------------
(* Ani-RSS text templates: main.py is_ani_rss_text_template and              *)
(* AniRSSHandler.is_ani_rss_text_template                                    *)

\* ani_rss_template_patterns, the same list in both classes
AniRssTemplatePatterns ==
    {"${emoji}", "${action}", "${title}", "${score}", "${tmdburl}", "${themoviedbName}",
     "${bgmUrl}", "${season}", "${episode}", "${subgroup}", "${currentEpisodeNumber}",
     "${totalEpisodeNumber}", "${year}", "${month}", "${date}", "${text}",
     "${downloadPath}", "${episodeTitle}"}

\* the pieces a body text of the model is made of: known variables, an unknown
\* variable and a plain word
TemplateTokens == {"${title}", "${season}", "${episode}", "${name}", "word"}

\* A non-JSON body text: the sequence of its pieces
BodyTexts == UNION {[1..n -> TemplateTokens] : n \in 0..MaxTextLen}

\* pattern in text
Occurs(pattern, text) == \E i \in DOMAIN text : text[i] = pattern

\* MediaWebhookPlugin.is_ani_rss_text_template: found_patterns >= 3
IsAniRssTextTemplate(text) ==
    Cardinality({pattern \in AniRssTemplatePatterns : Occurs(pattern, text)}) >= 3

\* AniRSSHandler.is_ani_rss_text_template: any(pattern in text ...)
HandlerIsAniRssTextTemplate(text) ==
    \E pattern \in AniRssTemplatePatterns : Occurs(pattern, text)

\* the inputs of the template tests
TemplateProbes == {[fn |-> "template", text |-> t] : t \in BodyTexts}

\* what a template test returned, with the class it belongs to
Recognised(class, result) == [fn |-> "template", class |-> class, result |-> result]

\* MediaWebhookPlugin.is_ani_rss_text_template is applied to the text
IsAniRssTextTemplateStep ==
    /\ probe.fn = "template"
    /\ verdict.fn = "none"
    /\ verdict' = Recognised("MediaWebhookPlugin", IsAniRssTextTemplate(probe.text))
    /\ UNCHANGED <<ingressVars, batchVars, enrichVars, mediaVars, hashVars, rateVars, probe>>

\* AniRSSHandler.is_ani_rss_text_template is applied to the text
HandlerIsAniRssTextTemplateStep ==
    /\ probe.fn = "template"
    /\ verdict.fn = "none"
    /\ verdict' = Recognised("AniRSSHandler", HandlerIsAniRssTextTemplate(probe.text))
    /\ UNCHANGED <<ingressVars, batchVars, enrichVars, mediaVars, hashVars, rateVars, probe>>

----------------------------------------------------------------------------
(* media/enrichment: EnrichmentManager.get_media_image *)

\* EnrichmentManager._initialize_providers: the image providers
InitializeImageProviders(config) ==
    SortByPriority((IF config.tmdb_api_key # "" THEN <<TMDBProvider>> ELSE <<>>) \o
                   <<BGMProvider>>)

\* what provider.get_image may do: raise, return "" or return a URL
ImageOutcomes == {"raise", "", "url"}

\* the URL a provider returns when it has an image
ImageUrlOf(name) == "http://" \o name \o "/poster.jpg"

\* what get_media_image returns, with the providers it called (ghost)
ImageResult(image_url, called) == [image_url |-> image_url, called |-> called]

RECURSIVE GetMediaImageStopsAtRaise(_, _)
\* a chain that a raising provider would end
GetMediaImageStopsAtRaise(image_providers, outcome) ==
    IF image_providers = <<>> THEN ImageResult("", <<>>)
    ELSE LET provider == Head(image_providers)
             rest == GetMediaImageStopsAtRaise(Tail(image_providers), outcome)
         IN  IF outcome[provider.name] = "url"
             THEN ImageResult(ImageUrlOf(provider.name), <<provider>>)
             ELSE IF outcome[provider.name] = "raise"
             THEN ImageResult("", <<provider>>)
             ELSE ImageResult(rest.image_url, <<provider>> \o rest.called)

RECURSIVE GetMediaImage(_, _)
\* EnrichmentManager.get_media_image: the loop over self.image_providers; outcome
\* tells what each provider's get_image does
GetMediaImage(image_providers, outcome) ==
    IF image_providers = <<>> THEN ImageResult("", <<>>)
    ELSE LET provider == Head(image_providers)
             rest == GetMediaImage(Tail(image_providers), outcome)
         IN  IF outcome[provider.name] = "url"
             THEN ImageResult(ImageUrlOf(provider.name), <<provider>>)
             ELSE ImageResult(rest.image_url, <<provider>> \o rest.called)

\* the inputs of get_media_image: the configuration the manager was built with and
\* what the providers do
ImageProbes ==
    {[fn |-> "image", config |-> c, outcome |-> o] :
        c \in EnrichConfigs, o \in [{TMDBProvider.name, BGMProvider.name} -> ImageOutcomes]}

\* EnrichmentManager.get_media_image is called
GetMediaImageStep ==
    /\ probe.fn = "image"
    /\ verdict.fn = "none"
    /\ verdict' = [fn |-> "image"] @@
                  GetMediaImage(InitializeImageProviders(probe.config), probe.outcome)
    /\ UNCHANGED <<ingressVars, batchVars, enrichVars, mediaVars, hashVars, rateVars, probe>>

----------------------------------------------------------------------------
(* adapters/adapter_factory.py: AdapterFactory *)

\* the platform identifiers of the model
PlatformNames == {"napcat", "NapCat-QQ", "llonebot", "LLOneBot", "onebot", "OneBot",
                  "onebot11", "aiocqhttp", "telegram", ""}

\* platform_name.lower()
PlatformLower(platform_name) ==
    CASE platform_name = "NapCat-QQ" -> "napcat-qq"
      [] platform_name = "LLOneBot" -> "llonebot"
      [] platform_name = "OneBot" -> "onebot"
      [] OTHER -> platform_name

\* word in platform_lower, for the lower-case identifiers of the model
InName(word, platform_lower) ==
    \/ word = platform_lower
    \/ word = "napcat" /\ platform_lower = "napcat-qq"
    \/ word = "onebot" /\ platform_lower \in {"llonebot", "onebot11"}

\* an inference whose default is the NapCat adapter
InferNapcatByDefault(platform_name) ==
    IF InName("llonebot", PlatformLower(platform_name)) THEN "llonebot" ELSE "napcat"

\* AdapterFactory._infer_adapter_type
InferAdapterType(platform_name) ==
    LET platform_lower == PlatformLower(platform_name)
    IN  IF InName("napcat", platform_lower) THEN "napcat"
        ELSE IF InName("llonebot", platform_lower) THEN "llonebot"
        ELSE IF platform_lower \in {"onebot"} THEN "napcat"
        ELSE "aiocqhttp"

\* AdapterFactory.create_adapter: the class of the instance and its platform_name
CreateAdapter(platform_name) ==
    LET adapter_type == InferAdapterType(platform_name)
    IN  [class |-> IF adapter_type = "napcat" THEN "NapCatAdapter"
                   ELSE IF adapter_type = "llonebot" THEN "LLOneBotAdapter"
                   ELSE "AiocqhttpAdapter",
         platform_name |-> platform_name]

\* the inputs of create_adapter
AdapterProbes == {[fn |-> "adapter", platform_name |-> n] : n \in PlatformNames}

\* AdapterFactory.create_adapter is called
CreateAdapterStep ==
    /\ probe.fn = "adapter"
    /\ verdict.fn = "none"
    /\ verdict' = [fn |-> "adapter"] @@ CreateAdapter(probe.platform_name)
    /\ UNCHANGED <<ingressVars, batchVars, enrichVars, mediaVars, hashVars, rateVars, probe>>

----------------------------------------------------------------------------
(* processors/emby_processor.py: EmbyProcessor.convert_to_standard on episodes *)

\* the Emby Episode notifications with season s and episode e
EmbyEpisode(s, e) ==
    [Item |-> [Type |-> "Episode", Name |-> "Ep", SeriesName |-> "Show",
               ParentIndexNumber |-> s, IndexNumber |-> e],
     Server |-> EmbyServer]

\* the inputs of the conversion
EmbyProbes == {[fn |-> "emby", data |-> EmbyEpisode(s, e)] : s, e \in 0..MaxNumber}

\* EmbyProcessor.convert_to_standard is applied to the notification
EmbyConvertToStandardStep ==
    /\ probe.fn = "emby"
    /\ verdict.fn = "none"
    /\ verdict' = [fn |-> "emby", data |-> EmbyConvertToStandard(probe.data)]
    /\ UNCHANGED <<ingressVars, batchVars, enrichVars, mediaVars, hashVars, rateVars, probe>>

----------------------------------------------------------------------------
(* media/enrichment and tmdb_enricher.py: the in-memory cache of the lookups *)

\* the classes that keep a lookup cache
LookupClasses == {"TMDBProvider", "TVDBProvider", "TMDBEnricher"}

\* the series names that are looked up
SearchKeys == {"Show", "Other"}

\* what the outbound request of a lookup ends in: a first result, no result (an
\* empty list or a status other than 200), an exception
SearchResponses == {"found", "empty", "raise"}

\* the test on the age of an entry: the providers keep it while age < cache_ttl,
\* TMDBEnricher until age > cache_ttl
FreshEntry(class, age) ==
    IF class = "TMDBEnricher" THEN ~(age > ProviderCacheTtl) ELSE age < ProviderCacheTtl

\* _get_from_cache / get_from_cache: the value stored under the key ("None" for
\* None), None when there is no entry or it has expired; an expired entry is
\* deleted
GetFromCache(class, cache, key, t) ==
    LET rows == {r \in cache : r.key = key}
    IN  IF rows = {} THEN [value |-> "None", cache |-> cache]
        ELSE IF FreshEntry(class, t - (CHOOSE r \in rows : TRUE).time)
        THEN [value |-> (CHOOSE r \in rows : TRUE).value, cache |-> cache]
        ELSE [value |-> "None", cache |-> cache \ rows]

\* _set_cache / set_cache: the entry and its timestamp; TMDBEnricher.set_cache
\* then deletes the expired entries (cleanup_expired_cache)
SetCache(class, cache, key, value, t) ==
    LET written == {r \in cache : r.key # key} \cup
                   {[key |-> key, value |-> value, time |-> t]}
    IN  IF class = "TMDBEnricher"
        THEN {r \in written : ~(t - r.time > ProviderCacheTtl)}
        ELSE written

\* _search_tmdb_tv_show / _search_series / search_tv_show at time t: the result,
\* whether an outbound request was made, and the cache afterwards
SearchTvShow(class, cache, key, t, response) ==
    LET cached_result == GetFromCache(class, cache, key, t)
    IN  IF cached_result.value # "None"
        THEN [result |-> cached_result.value, outbound |-> FALSE,
              cache |-> cached_result.cache]
        ELSE CASE response = "found" ->
                    [result |-> "show", outbound |-> TRUE,
                     cache |-> SetCache(class, cached_result.cache, key, "show", t)]
               [] response = "empty" ->
                    [result |-> "None", outbound |-> TRUE,
                     cache |-> SetCache(class, cached_result.cache, key, "None", t)]
               [] OTHER ->
                    [result |-> "None", outbound |-> TRUE, cache |-> cached_result.cache]

\* a provider object after construction: empty cache; answered is the ghost of
\* the last outbound request of each key that was answered
SearchProbes ==
    {[fn |-> "search", class |-> c, cache |-> {}, time |-> 0, calls |-> 0,
      answered |-> {}] : c \in LookupClasses}

\* one lookup of a series name, dt ticks after the last one
SearchTvShowStep ==
    /\ probe.fn = "search"
    /\ probe.calls < MaxLookups
    /\ \E key \in SearchKeys, response \in SearchResponses, dt \in 0..ProviderCacheTtl :
          LET t == probe.time + dt
              s == SearchTvShow(probe.class, probe.cache, key, t, response)
              before == {a \in probe.answered : a.key = key}
              wrote == s.outbound /\ response # "raise"
          IN  /\ probe' = [probe EXCEPT
                     !.cache = s.cache, !.time = t, !.calls = @ + 1,
                     !.answered = IF wrote
                                  THEN (@ \ before) \cup
                                       {[key |-> key, response |-> response, time |-> t]}
                                  ELSE @]
              /\ verdict' = [fn |-> "search", class |-> probe.class, key |-> key,
                             outbound |-> s.outbound, result |-> s.result,
                             before |-> IF before = {} THEN "none"
                                        ELSE (CHOOSE a \in before : TRUE).response,
                             age |-> IF before = {} THEN 0
                                     ELSE t - (CHOOSE a \in before : TRUE).time]
    /\ UNCHANGED <<ingressVars, batchVars, enrichVars, mediaVars, hashVars, rateVars>>

----------------------------------------------------------------------------
(* main.py: the duplicate check of handle_webhook on one media_data *)

\* media_data dicts of unknown sources (the parsed body as it came): a film, the
\* same with a number or null where a name is expected, and an Ani-RSS dict
\* whose template is a number
DedupMediaData ==
    {MediaData("Movie", "", item, "", "", year, "", "", "", "") :
        item \in {"Film", "<number>", "<null>"}, year \in {"", "2024"}}
    \cup {MediaData("Movie", series, "Film", "", "", "", "", "", "", "") :
            series \in {"<null>"}}
    \cup {MediaData("", "", "", "", "", "", "", "", tpl, "") :
            tpl \in {"${title} ${season} ${episode}", "<number>"}}

\* the dedup caches earlier requests leave: nothing, or the entry of a request
\* accepted at time 0
DedupCaches ==
    {{}} \cup
    {{[hash |-> CalculateRequestHash(md), expire |-> CacheTtl]} :
        md \in {m \in DedupMediaData : ~HashRaises(m)}}

DedupProbes ==
    {[fn |-> "dedup", md |-> md, cache |-> cache, time |-> t] :
        md \in DedupMediaData, cache \in DedupCaches, t \in 0..MaxTime}

\* handle_webhook lines 325-331 on media_data: the duplicate check, then either
\* the "duplicate" Response or the call of _add_to_queue and the "queued" Response
IsDuplicateRequestStep ==
    /\ probe.fn = "dedup"
    /\ verdict.fn = "none"
    /\ verdict' = [fn |-> "dedup",
                   hash |-> CalculateRequestHash(probe.md),
                   duplicate |-> IsDuplicateRequest(probe.cache, probe.md, probe.time),
                   cache |-> CacheAfterCheck(probe.cache, probe.md, probe.time, CacheTtl),
                   response |-> IF IsDuplicateRequest(probe.cache, probe.md, probe.time)
                                THEN "duplicate" ELSE "queued"]
    /\ UNCHANGED <<ingressVars, batchVars, enrichVars, mediaVars, hashVars, rateVars, probe>>

----------------------------------------------------------------------------
(* main.py: the construction of the plugin *)

\* the minimums validate_config enforces (validation_rules, lines 197-199)
MinBatchInterval == 10
MinCacheTtl == 60
MinBatchSize == 1

\* what the user configured: the three int options, below, at and above their
\* minimums
ConfiguredValues ==
    [batch_min_size : {0, 1, 3},
     cache_ttl_seconds : {30, 60, 300},
     batch_interval_seconds : {5, 10, 300}]

\* _init_core_config (called at line 93 of __init__): the attributes are copies
\* of the options as configured
InitCoreConfig(config) ==
    [batch_min_size |-> config.batch_min_size,
     cache_ttl_seconds |-> config.cache_ttl_seconds,
     batch_interval_seconds |-> config.batch_interval_seconds]

\* validate_config (called at line 186 of __init__, after _init_core_config):
\* self.config with every option that fails its rule set to the rule's minimum
ValidateConfig(config) ==
    [batch_min_size |->
         IF config.batch_min_size >= MinBatchSize
         THEN config.batch_min_size ELSE MinBatchSize,
     cache_ttl_seconds |->
         IF config.cache_ttl_seconds >= MinCacheTtl
         THEN config.cache_ttl_seconds ELSE MinCacheTtl,
     batch_interval_seconds |->
         IF config.batch_interval_seconds >= MinBatchInterval
         THEN config.batch_interval_seconds ELSE MinBatchInterval]

\* the plugin after __init__: its attributes and its config
PluginInit(config) ==
    [attributes |-> InitCoreConfig(config), config |-> ValidateConfig(config)]

\* the values the pipeline works with: process_message_queue and
\* send_batch_messages read self.batch_min_size (lines 1805, 1835),
\* _is_duplicate_request reads self.cache_ttl_seconds (line 358), and
\* start_batch_processor reads self.config["batch_interval_seconds"] (line 1779)
UsedValues(plugin) ==
    [batch_min_size |-> plugin.attributes.batch_min_size,
     cache_ttl_seconds |-> plugin.attributes.cache_ttl_seconds,
     batch_interval_seconds |-> plugin.config.batch_interval_seconds]

ConfigProbes == {[fn |-> "init", config |-> c] : c \in ConfiguredValues}

\* MediaWebhookPlugin.__init__ on a configuration
PluginInitStep ==
    /\ probe.fn = "init"
    /\ verdict.fn = "none"
    /\ verdict' = [fn |-> "init", used |-> UsedValues(PluginInit(probe.config))]
    /\ UNCHANGED <<ingressVars, batchVars, enrichVars, mediaVars, hashVars, rateVars, probe>>

----------------------------------------------------------------------------
(* adapters/: send_forward_messages and build_forward_node *)

AdapterClasses == {"NapCatAdapter", "LLOneBotAdapter", "AiocqhttpAdapter"}

\* a message handed to an adapter; a key the dict lacks is "" (the keys are read
\* with .get and tested for truth)
AdapterMessage(message_text, text, image_url) ==
    [message_text |-> message_text, text |-> text, image_url |-> image_url]

\* the message lists of the model: the payloads of the queue (message_text), one
\* with blank text, one with the key "text", one with an image that is no URL
AdapterMessageLists ==
    { <<>>,
      <<AdapterMessage("Movie Film", "", "")>>,
      <<AdapterMessage(" Show", "", "http://u1")>>,
      <<AdapterMessage(" ", "", "")>>,
      <<AdapterMessage("", "plain", "u2")>>,
      <<AdapterMessage("Movie Film", "", ""), AdapterMessage(" ", "", "http://u1")>> }

\* int(s) does not raise
IsIntLiteral(s) == s \in {"2659908767", "10000", "123456"}

\* the texts the adapters put in for what is missing (the source has them in
\* Chinese: "media notification", "image failed to load", "empty message")
DefaultNodeText == "[media notification]"
ImageFailedText == "[image failed to load]"
EmptyMessageText == "[empty message]"

\* a segment of a node's content
Segment(type, data) == [type |-> type, data |-> data]

\* NapCatAdapter.build_forward_node and LLOneBotAdapter.build_forward_node: the
\* content list of the node
BuildForwardNodeContent(message) ==
    LET content == (IF message.image_url # ""
                    THEN <<Segment("image", message.image_url)>> ELSE <<>>) \o
                   (IF Strip(message.message_text) # ""
                    THEN <<Segment("text", Strip(message.message_text))>> ELSE <<>>)
    IN  IF content = <<>> THEN <<Segment("text", DefaultNodeText)>> ELSE content

\* AiocqhttpAdapter.send_forward_messages lines 46-63: the content list of the
\* node of one message; Comp.Image.fromURL raises on what is no http(s) URL and
\* the except puts a text in its place
AiocqhttpNodeContent(message) ==
    LET content == (IF message.text # ""
                    THEN <<Segment("text", message.text)>> ELSE <<>>) \o
                   (IF message.image_url = "" THEN <<>>
                    ELSE IF message.image_url \in {"http://u1"}
                    THEN <<Segment("image", message.image_url)>>
                    ELSE <<Segment("text", ImageFailedText)>>)
    IN  IF content = <<>> THEN <<Segment("text", EmptyMessageText)>> ELSE content

\* the content of the node an adapter builds for a message
NodeContent(class, message) ==
    IF class = "AiocqhttpAdapter" THEN AiocqhttpNodeContent(message)
    ELSE BuildForwardNodeContent(message)

\* building a node raises: int(sender_id) in LLOneBotAdapter.build_forward_node
\* (line 124) and in Comp.Node(uin=int(sender_id)) (aiocqhttp_adapter.py line 66);
\* NapCatAdapter uses str(sender_id)
NodeRaises(class, sender_id) == class # "NapCatAdapter" /\ ~IsIntLiteral(sender_id)

\* the messages an adapter builds nodes for: NapCat and LLOneBot keep the ones
\* that pass validate_message, aiocqhttp takes all
NodeMessages(class, msgs) ==
    IF class = "AiocqhttpAdapter" THEN msgs ELSE SelectSeq(msgs, ValidateMessage)

\* what the client does with the send call and, for aiocqhttp, with the send call
\* of the fallback: it returns a dict, returns None, or raises
ClientOutcomes == [first : {"dict", "none", "raise"}, fallback : {"dict", "raise"}]

\* the outcome of the body of send_forward_messages: it raised or it returned
\* with success; returned tells whether a send call of the client came back
\* without an error (ghost)
Outcome(raised, success, returned, nodes) ==
    [raised |-> raised, success |-> success, returned |-> returned, nodes |-> nodes]

\* the statements inside the try of NapCatAdapter.send_forward_messages (lines
\* 34-67) and LLOneBotAdapter.send_forward_messages (lines 33-68)
OneBotSendBody(class, in) ==
    LET valid_messages == NodeMessages(class, in.messages)
        nodes == [i \in 1..Len(valid_messages) |-> NodeContent(class, valid_messages[i])]
    IN  IF valid_messages = <<>> THEN Outcome(FALSE, FALSE, FALSE, <<>>)
        ELSE IF NodeRaises(class, in.sender_id) THEN Outcome(TRUE, FALSE, FALSE, <<>>)
        ELSE IF ~IsIntLiteral(in.group_id) THEN Outcome(TRUE, FALSE, FALSE, nodes)
        ELSE IF in.client.first = "raise" THEN Outcome(TRUE, FALSE, FALSE, nodes)
        ELSE Outcome(FALSE, TRUE, TRUE, nodes)

\* the statements inside the try of AiocqhttpAdapter.send_forward_messages (lines
\* 36-99) with _send_group_message and _fallback_send_group_message: the fallback
\* is tried when the first call raises; result.get raises when the client
\* returned None
AiocqhttpSendBody(class, in) ==
    LET nodes == [i \in 1..Len(in.messages) |-> NodeContent(class, in.messages[i])]
    IN  IF in.messages # <<>> /\ NodeRaises(class, in.sender_id)
        THEN Outcome(TRUE, FALSE, FALSE, <<>>)
        ELSE IF ~IsIntLiteral(in.group_id) THEN Outcome(TRUE, FALSE, FALSE, nodes)
        ELSE IF in.client.first = "raise" /\ in.client.fallback = "raise"
        THEN Outcome(TRUE, FALSE, FALSE, nodes)
        ELSE IF in.client.first = "none" THEN Outcome(TRUE, FALSE, TRUE, nodes)
        ELSE Outcome(FALSE, TRUE, TRUE, nodes)

SendBody(class, in) ==
    IF class = "AiocqhttpAdapter" THEN AiocqhttpSendBody(class, in)
    ELSE OneBotSendBody(class, in)

\* a send_forward_messages whose body would stand outside a try
SendForwardMessagesUnguarded(class, in) == SendBody(class, in)

\* send_forward_messages: the body in its try, and the except clause that returns
\* {"success": False, "error": ...}
SendForwardMessages(class, in) ==
    LET body == SendBody(class, in)
    IN  IF body.raised THEN [body EXCEPT !.raised = FALSE, !.success = FALSE]
        ELSE body

ForwardProbes ==
    {[fn |-> "forward", class |-> c, messages |-> m, sender_id |-> s, group_id |-> g,
      client |-> o] :
        c \in AdapterClasses, m \in AdapterMessageLists, s \in {"2659908767", "bot"},
        g \in {"123456", "g1"}, o \in ClientOutcomes}

\* an adapter's send_forward_messages is awaited
SendForwardMessagesStep ==
    /\ probe.fn = "forward"
    /\ verdict.fn = "none"
    /\ verdict' = [fn |-> "forward"] @@ SendForwardMessages(probe.class, probe)
    /\ UNCHANGED <<ingressVars, batchVars, enrichVars, mediaVars, hashVars, rateVars, probe>>

----------------------------------------------------------------------------
(* processors/processor_manager.py: the list of processors and its two    *)
(* mutators, add_processor and remove_processor                            *)

\* ProcessorManager.__init__: self.processors, by class name
ProcessorManagerInit ==
    <<"EmbyProcessor", "JellyfinProcessor", "PlexProcessor", "GenericProcessor">>

\* the objects handed to add_processor: a custom processor, a second
\* GenericProcessor, and an object that is not a BaseMediaProcessor
AddedProcessors == {"CustomProcessor", "GenericProcessor", "<not a processor>"}

\* the priority argument of add_processor: None (given = FALSE) or an int
Priorities ==
    {[given |-> FALSE, at |-> 0]} \cup
    {[given |-> TRUE, at |-> i] : i \in -2..(Len(ProcessorManagerInit) + MaxRegistryCalls)}

\* list.insert(index, x): a negative index counts from the end, and an index
\* outside the list is clipped to its ends
ListInsert(list, index, x) ==
    LET n == Len(list)
        i == IF index < 0 THEN (IF index + n < 0 THEN 0 ELSE index + n)
             ELSE IF index > n THEN n ELSE index
    IN  SubSeq(list, 1, i) \o <<x>> \o SubSeq(list, i + 1, n)

\* ProcessorManager.add_processor: ValueError for anything that is not a
\* processor; insert(-1, ...) without a priority, insert(priority, ...) with one
AddProcessor(processors, processor, priority) ==
    IF processor = "<not a processor>"
    THEN [raised |-> TRUE, processors |-> processors]
    ELSE [raised |-> FALSE,
          processors |-> IF ~priority.given
                         THEN ListInsert(processors, -1, processor)
                         ELSE ListInsert(processors, priority.at, processor)]

\* ProcessorManager.remove_processor: pops the first processor of that class name
RemoveProcessor(processors, processor_name) ==
    LET found == {i \in DOMAIN processors : processors[i] = processor_name}
    IN  IF found = {}
        THEN [returned |-> FALSE, processors |-> processors]
        ELSE LET i == CHOOSE j \in found : \A k \in found : j <= k
             IN  [returned |-> TRUE,
                  processors |-> SubSeq(processors, 1, i - 1) \o
                                 SubSeq(processors, i + 1, Len(processors))]

\* a freshly constructed ProcessorManager
RegistryProbes ==
    {[fn |-> "registry", processors |-> ProcessorManagerInit, calls |-> 0]}

\* one call of add_processor on the manager
AddProcessorStep ==
    /\ probe.fn = "registry"
    /\ probe.calls < MaxRegistryCalls
    /\ \E processor \in AddedProcessors, priority \in Priorities :
          LET r == AddProcessor(probe.processors, processor, priority)
          IN  /\ probe' = [probe EXCEPT !.processors = r.processors, !.calls = @ + 1]
              /\ verdict' = [fn |-> "add_processor", processor |-> processor,
                             priority |-> priority, raised |-> r.raised,
                             before |-> probe.processors]
    /\ UNCHANGED <<ingressVars, batchVars, enrichVars, mediaVars, hashVars, rateVars>>

\* one call of remove_processor on the manager
RemoveProcessorStep ==
    /\ probe.fn = "registry"
    /\ probe.calls < MaxRegistryCalls
    /\ \E processor_name \in Range(ProcessorManagerInit) \cup {"CustomProcessor"} :
          LET r == RemoveProcessor(probe.processors, processor_name)
          IN  /\ probe' = [probe EXCEPT !.processors = r.processors, !.calls = @ + 1]
              /\ verdict' = [fn |-> "remove_processor", processor |-> processor_name,
                             returned |-> r.returned, before |-> probe.processors]
    /\ UNCHANGED <<ingressVars, batchVars, enrichVars, mediaVars, hashVars, rateVars>>

----------------------------------------------------------------------------
(* The pure functions of the plugin, each applied to one input *)

\* the inputs of the functions
ProbeInputs ==
    DetectProbes \cup TemplateProbes \cup ImageProbes \cup AdapterProbes \cup EmbyProbes
        \cup SearchProbes \cup DedupProbes \cup ConfigProbes
        \cup ForwardProbes \cup RegistryProbes

InitProbe ==
    /\ now = 0
    /\ request_cache = {}
    /\ handlers = {}
    /\ responses = <<>>
    /\ nRequests = 0
    /\ cfg \in {Config("g1", 3, FALSE, "aiocqhttp", TRUE)}
    /\ message_queue = <<>>
    /\ producers = {}
    /\ nItems = 0
    /\ bpc = "idle"
    /\ messages = <<>>
    /\ bidx = 1
    /\ cycle = 0
    /\ drainedSets = <<>>
    /\ dispatchLog = <<>>
    /\ providers = <<>>
    /\ media_cache = {}
    /\ enrich_calls = {}
    /\ enrich_log = <<>>
    /\ nEnrich = 0
    /\ cache_ops = <<>>
    /\ RateIdle
    /\ dp_request_cache = {}
    /\ dp_tasks = {}
    /\ dp_results = <<>>
    /\ nRaw = 0
    /\ pair = <<>>
    /\ fps = <<>>
    /\ probe \in ProbeInputs
    /\ verdict = [fn |-> "none"]

NextProbe ==
    \/ DetectSourceStep
    \/ DetectNotificationSourceStep
    \/ DetectMediaSourceStep
    \/ IsAniRssTextTemplateStep
    \/ HandlerIsAniRssTextTemplateStep
    \/ GetMediaImageStep
    \/ CreateAdapterStep
    \/ EmbyConvertToStandardStep
    \/ SearchTvShowStep
    \/ IsDuplicateRequestStep
    \/ PluginInitStep
    \/ SendForwardMessagesStep
    \/ AddProcessorStep
    \/ RemoveProcessorStep

SpecProbe == InitProbe /\ [][NextProbe]_vars

----------------------------------------------------------------------------
(* Properties of the queue and the batch processor (SpecBatch) *)

\* the dispatches of kind k logged for drain cycle c
Dispatches(c, k) ==
    {i \in DOMAIN dispatchLog : dispatchLog[i].cycle = c /\ dispatchLog[i].kind = k}

\* the individual dispatches logged for item id in drain cycle c
IndividualDispatches(c, id) ==
    {i \in Dispatches(c, "individual") : dispatchLog[i].ids = <<id>>}

\* drain cycle c has run to its end
CycleDone(c) == c < cycle \/ (c = cycle /\ bpc = "idle")

DrainCycles == DOMAIN drainedSets

\* every item of drain cycle c went through the individual send loop exactly once
EachItemIndividuallyOnce(c) ==
    \A k \in DOMAIN drainedSets[c] :
        Cardinality(IndividualDispatches(c, drainedSets[c][k])) = 1

\* line 1819: the configuration lets a drained set of n messages go out merged
Batchable(n) ==
    /\ n >= cfg.batch_min_size
    /\ ~cfg.force_individual_send
    /\ SupportsForwardMessages(cfg.platform_name)

\* C2 as stated: in a finished drain cycle, a drained set below batch_min_size gets
\* one individual dispatch per item and no batch dispatch, and a drained set of
\* batch_min_size or more items gets exactly one batch dispatch.
C2_SizeAloneDecides ==
    \A c \in DrainCycles :
        CycleDone(c) =>
            IF Len(drainedSets[c]) < cfg.batch_min_size
            THEN EachItemIndividuallyOnce(c) /\ Dispatches(c, "batch") = {}
            ELSE Cardinality(Dispatches(c, "batch")) = 1

\* C2 amended: in a finished drain cycle, a drained set gets exactly one batch
\* dispatch when it has batch_min_size or more items, force_individual_send is off
\* and the platform supports forward messages; in every other case it gets one
\* individual dispatch per item and no batch dispatch.
C2_DispatchDecision ==
    \A c \in DrainCycles :
        CycleDone(c) =>
            IF Batchable(Len(drainedSets[c]))
            THEN Cardinality(Dispatches(c, "batch")) = 1
            ELSE EachItemIndividuallyOnce(c) /\ Dispatches(c, "batch") = {}

\* with batch_min_size 3: a finished cycle of 3 items that had its one batch dispatch
C2_Witness ==
    /\ cfg.batch_min_size = 3
    /\ \E c \in DrainCycles :
          /\ CycleDone(c)
          /\ Len(drainedSets[c]) = 3
          /\ \E i \in Dispatches(c, "batch") : dispatchLog[i].ok

\* C3: when the batch dispatch of a drained set fails, then by the end of that
\* drain cycle every item of the set has been dispatched individually exactly once,
\* after the batch dispatch, and the log holds no second batch dispatch for the
\* cycle or for any of its items.
C3_FallbackToIndividual ==
    \A b \in DOMAIN dispatchLog :
        (dispatchLog[b].kind = "batch" /\ ~dispatchLog[b].ok) =>
            LET c == dispatchLog[b].cycle
                items == Range(drainedSets[c])
            IN  /\ \A i \in Dispatches(c, "individual") : b < i
                /\ CycleDone(c) => EachItemIndividuallyOnce(c)
                /\ \A i \in DOMAIN dispatchLog :
                      (/\ dispatchLog[i].kind = "batch"
                       /\ (dispatchLog[i].cycle = c
                           \/ Range(dispatchLog[i].ids) \cap items # {}))
                      => i = b

\* a finished cycle of 3 items whose forward send raised and whose 3 items were
\* then sent one by one
C3_Witness ==
    \E b \in DOMAIN dispatchLog :
        /\ dispatchLog[b].kind = "batch"
        /\ dispatchLog[b].sent
        /\ ~dispatchLog[b].ok
        /\ CycleDone(dispatchLog[b].cycle)
        /\ Len(drainedSets[dispatchLog[b].cycle]) = 3
        /\ Cardinality(Dispatches(dispatchLog[b].cycle, "individual")) = 3

\* the ids _add_to_queue has appended so far
Enqueued == (1..nItems) \ {p.id : p \in producers}

\* how many times id occurs in the queue and in the drained sets
Occurrences(id) ==
    Cardinality({k \in DOMAIN message_queue : message_queue[k].id = id}) +
    SeqSum([c \in DOMAIN drainedSets |->
              Cardinality({k \in DOMAIN drainedSets[c] : drainedSets[c][k] = id})])

\* a drain step takes the whole queue and leaves it empty
DrainStep ==
    cycle' # cycle =>
        /\ drainedSets' = Append(drainedSets, Ids(message_queue))
        /\ message_queue' = <<>>

\* C4: every drain step moves the whole queue into one drained set and leaves the
\* queue empty, and at all times every appended item is either still in the queue
\* or in exactly one drained set, once: none is lost and none is drained twice.
C4_AtomicDrain ==
    /\ [](\A id \in Enqueued : Occurrences(id) = 1)
    /\ [][DrainStep]_vars

\* two drains have happened, with items appended before, between and while a
\* drained set was being sent
C4_Witness ==
    /\ Len(drainedSets) = 2
    /\ drainedSets[1] # <<>>
    /\ drainedSets[2] # <<>>
    /\ Len(drainedSets[1]) + Len(drainedSets[2]) = nItems
    /\ message_queue = <<>>

----------------------------------------------------------------------------
(* Properties of the enrichment (SpecEnrich) *)

\* the enrichment that returned in the last step was a cache miss of revision rev
Missed(rev) ==
    enrich_log # <<>> /\ enrich_log[1].rev = rev /\ ~enrich_log[1].hit

\* every provider call of the enrichment e raised or returned its input
AllFailed(e) ==
    \A i \in DOMAIN e.calls : e.calls[i].outcome \in {"raise", "unchanged"}

\* the dicts a and b hold the same keys and differ at most in image_url
SameExceptImage(a, b) ==
    /\ DOMAIN a = DOMAIN b
    /\ \A k \in DOMAIN a \ {"image_url"} : a[k] = b[k]

\* in the manager's enrichment e the providers were called in list order, and each
\* provider that raised or returned its input was followed by the next one
NextProviderAttempted(e) ==
    /\ Len(e.calls) <= Len(providers)
    /\ \A i \in DOMAIN e.calls : e.calls[i].name = providers[i].name
    /\ e.calls # <<>>
    /\ \A i \in DOMAIN e.calls :
          (e.calls[i].outcome \in {"raise", "unchanged"} /\ i < Len(providers))
              => i + 1 \in DOMAIN e.calls

\* in main.py's enrichment e a failed TMDB call is followed by the BGM.TV call
BgmAfterTmdb(e) ==
    \A i \in DOMAIN e.calls :
        (e.calls[i].name = "tmdb" /\ e.calls[i].outcome # "enriched")
            => (i + 1 \in DOMAIN e.calls /\ e.calls[i + 1].name = "bgm")

\* C9 as stated: a provider that raises or returns its input is followed by the
\* next provider, and when every provider call raised or returned its input the
\* enrichment returns data equal to its input.
C9_AllFailMeansUnchanged ==
    /\ Missed("manager") => NextProviderAttempted(enrich_log[1])
    /\ Missed("main") => BgmAfterTmdb(enrich_log[1])
    /\ \A rev \in {"manager", "main"} :
          (Missed(rev) /\ AllFailed(enrich_log[1]))
              => enrich_log[1].output = enrich_log[1].input

\* C9 amended: a provider that raises or returns its input is followed by the next
\* provider; when every provider call raised or returned its input, the
\* EnrichmentManager returns data equal to its input, and main.py's
\* enrich_media_data_with_external_apis returns data equal to its input in every
\* field but image_url, which it may fill from the fallback image lookup when it
\* was empty. Nothing is raised to the caller.
C9_FallbackOrder ==
    /\ Missed("manager") => NextProviderAttempted(enrich_log[1])
    /\ Missed("main") => BgmAfterTmdb(enrich_log[1])
    /\ (Missed("manager") /\ AllFailed(enrich_log[1]))
          => enrich_log[1].output = enrich_log[1].input
    /\ (Missed("main") /\ AllFailed(enrich_log[1]))
          => /\ SameExceptImage(enrich_log[1].output, enrich_log[1].input)
             /\ enrich_log[1].output # enrich_log[1].input
                   => enrich_log[1].input.image_url = ""

\* with TMDB (priority 1) and TVDB (priority 2) configured: TMDB raised, TVDB was
\* attempted and returned its input, no provider enriched, and the data came back
\* as it went in
C9_Witness ==
    /\ Missed("manager")
    /\ Len(providers) = 3
    /\ providers[1].priority = 1
    /\ providers[2].priority = 2
    /\ Len(enrich_log[1].calls) = 3
    /\ enrich_log[1].calls[1].outcome = "raise"
    /\ enrich_log[1].calls[2].outcome = "unchanged"
    /\ AllFailed(enrich_log[1])
    /\ enrich_log[1].output = enrich_log[1].input

\* the flags the providers set in the dict md
EnrichedFlags(md) ==
    {k \in {"tmdb_enriched", "tvdb_enriched", "bgm_enriched"} : DictGet(md, k, FALSE)}

\* C10: on a cache miss the providers are called in ascending priority, the calls
\* stop with the first provider whose output differs from the input, and the
\* result is exactly that provider's output for the input: no field of another
\* provider is in it.
C10_FirstDifferingWins ==
    Missed("manager") =>
        LET e == enrich_log[1]
        IN  /\ \A i, j \in DOMAIN providers :
                  i < j => providers[i].priority <= providers[j].priority
            /\ \A i \in DOMAIN e.calls : e.calls[i].name = providers[i].name
            /\ \A i \in DOMAIN e.calls :
                  e.calls[i].outcome = "enriched" => i = Len(e.calls)
            /\ \A i \in DOMAIN e.calls :
                  e.calls[i].outcome = "enriched" =>
                      e.output = EnrichedCopy(e.calls[i].name, e.input)
            /\ Cardinality(EnrichedFlags(e.output)) <= 1
            /\ AllFailed(e) => EnrichedFlags(e.output) = {}

\* TMDB returned its input, TVDB enriched the data, BGM.tv was not called although
\* it is in the list, and the result carries TVDB's fields only
C10_Witness ==
    /\ Missed("manager")
    /\ Len(providers) = 3
    /\ Len(enrich_log[1].calls) = 2
    /\ enrich_log[1].calls[1].outcome = "unchanged"
    /\ enrich_log[1].calls[2].outcome = "enriched"
    /\ EnrichedFlags(enrich_log[1].output) = {"tvdb_enriched"}

----------------------------------------------------------------------------
(* Properties of the media/ pipeline (SpecMedia) and of the fingerprints (SpecHash) *)

\* C7 as stated: for two notifications that are identical except for the image URL
\* or the timestamp, the fingerprints computed by the pipeline are equal.
C7_FingerprintIgnoresImage ==
    fps # <<>> => fps[1] = fps[2]

\* C8 as stated: a payload that detect_and_process_raw_data returns for the queue
\* carries media data with a non-empty item type and a non-empty series name or
\* item name.
C8_QueuedItemsAreValid ==
    (dp_results # <<>> /\ dp_results[1].outcome = "media") =>
        LET md == dp_results[1].payload.media_data
        IN  /\ DictGet(md, "item_type", "") # ""
            /\ DictGet(md, "series_name", "") # "" \/ DictGet(md, "item_name", "") # ""

----------------------------------------------------------------------------
(* Properties of handle_webhook (Spec) *)

\* the requests handle_webhook answered as queued
QueuedResponses == {k \in DOMAIN responses : responses[k].text = "queued"}

\* the queue entries that belong to request id
QueueEntries(id) == {k \in DOMAIN message_queue : message_queue[k].id = id}

\* C5 as stated: whenever handle_webhook has answered a request as queued, the
\* queue holds the item of that request.
C5_QueuedMeansInQueue ==
    \A k \in QueuedResponses : QueueEntries(responses[k].id) # {}

\* two answered requests with the same fingerprint, the second checked within the
\* cache TTL of the first
WithinTtl(i, j) ==
    /\ i < j
    /\ responses[i].status = 200
    /\ responses[j].status = 200
    /\ responses[i].hash = responses[j].hash
    /\ responses[i].text = "queued"
    /\ responses[j].time - responses[i].time <= cfg.cache_ttl_seconds

\* C1 as stated: of two requests with the same fingerprint that arrive within the
\* TTL exactly one has an item in the queue, and a request with a fingerprint that
\* is no longer in the cache has a new item in the queue.
C1_OneItemPerFingerprint ==
    /\ \A i, j \in DOMAIN responses :
          WithinTtl(i, j) =>
              Cardinality(QueueEntries(responses[i].id) \cup
                          QueueEntries(responses[j].id)) = 1
    /\ \A j \in QueuedResponses : Cardinality(QueueEntries(responses[j].id)) = 1

EnrichmentSteps == {"enrich", "tmdb", "bgm", "image"}

\* in trace tr every step of the set before comes ahead of every step of the set after
Precedes(tr, before, after) ==
    \A i, j \in DOMAIN tr : (tr[i] \in before /\ tr[j] \in after) => i < j

\* C6 as stated: the dedup check of a request comes before every enrichment step
\* made for it, and a request answered as duplicate has made no enrichment step.
C6_DedupBeforeEnrich ==
    \A k \in DOMAIN responses :
        /\ Precedes(responses[k].trace, {"dedup"}, EnrichmentSteps)
        /\ responses[k].text = "duplicate" =>
               Range(responses[k].trace) \cap EnrichmentSteps = {}

\* C6 amended: a request passes the steps in the order convert, enrich, dedup
\* check, enqueue: every enrichment step and provider call made for a request comes
\* before its dedup check, a converted request is always enriched before it is
\* checked, and a request answered as duplicate is never enqueued.
C6_EnrichBeforeDedup ==
    \A k \in DOMAIN responses :
        LET tr == responses[k].trace
        IN  /\ Precedes(tr, {"convert"}, EnrichmentSteps)
            /\ Precedes(tr, EnrichmentSteps, {"dedup"})
            /\ Precedes(tr, {"dedup"}, {"enqueue"})
            /\ "convert" \in Range(tr) => {"enrich", "dedup"} \subseteq Range(tr)
            /\ responses[k].text = "duplicate" => "enqueue" \notin Range(tr)

\* a request answered as duplicate after provider calls were made for it
C6_Witness ==
    \E k \in DOMAIN responses :
        /\ responses[k].text = "duplicate"
        /\ Range(responses[k].trace) \cap {"tmdb", "bgm"} # {}

----------------------------------------------------------------------------
(* Properties of the persistent enrichment cache (SpecEnrich) *)

\* this step starts an EnrichmentManager.enrich_media_data call (it reads the cache)
ManagerCallStarts ==
    /\ nEnrich' = nEnrich + 1
    /\ cache_ops' # <<>>
    /\ cache_ops'[1].op = "get"

\* the table holds a row of the key that was written less than the cache TTL ago
WrittenWithinTtl(key) ==
    \E row \in media_cache :
        /\ row.cache_key = key
        /\ now - (row.expiry - CachePersistence) < CachePersistence

\* the call that started in this step has returned in it, from the cache, and no
\* provider was called for it
ReturnsWithoutProviderCall ==
    /\ enrich_log' # <<>>
    /\ enrich_log'[1].hit
    /\ enrich_log'[1].calls = <<>>
    /\ enrich_calls' = enrich_calls

----------------------------------------------------------------------------
(* Properties of the individual send loop and of the dispatch order (SpecBatch) *)

\* the individual dispatches of the log that failed: the content could not be
\* built or the send raised
FailedIndividual ==
    {i \in DOMAIN dispatchLog :
        dispatchLog[i].kind = "individual" /\ ~dispatchLog[i].ok}

\* C12: an item whose individual dispatch failed is not in the queue again and is
\* in no later dispatch of any cycle, and by the end of its drain cycle every item
\* of the drained set has had its own individual dispatch.
C12_FailedItemIsDropped ==
    \A f \in FailedIndividual :
        LET id == dispatchLog[f].ids[1]
            c == dispatchLog[f].cycle
        IN  /\ \A k \in DOMAIN message_queue : message_queue[k].id # id
            /\ \A i \in DOMAIN dispatchLog : i > f => id \notin Range(dispatchLog[i].ids)
            /\ CycleDone(c) => EachItemIndividuallyOnce(c)

\* the send of the first item of a drained set of three raised, the two items after
\* it were sent, and the drain cycle has run to its end
C12_Witness ==
    \E f \in FailedIndividual :
        LET c == dispatchLog[f].cycle
        IN  /\ dispatchLog[f].sent
            /\ Len(drainedSets[c]) = 3
            /\ dispatchLog[f].ids[1] = drainedSets[c][1]
            /\ \E i, j \in Dispatches(c, "individual") :
                  /\ dispatchLog[i].ids[1] = drainedSets[c][2] /\ dispatchLog[i].ok
                  /\ dispatchLog[j].ids[1] = drainedSets[c][3] /\ dispatchLog[j].ok
            /\ CycleDone(c)

RECURSIVE InOrderOf(_, _)
\* the sequence sub holds elements of the sequence seq in the order seq has them
InOrderOf(sub, seq) ==
    IF sub = <<>> THEN TRUE
    ELSE IF seq = <<>> THEN FALSE
    ELSE IF Head(sub) = Head(seq) THEN InOrderOf(Tail(sub), Tail(seq))
    ELSE InOrderOf(sub, Tail(seq))

RECURSIVE IndividualIds(_, _)
\* the ids of the individual dispatches of drain cycle c among the first n log
\* entries, in the order of the log
IndividualIds(c, n) ==
    IF n = 0 THEN <<>>
    ELSE IF dispatchLog[n].cycle = c /\ dispatchLog[n].kind = "individual"
         THEN Append(IndividualIds(c, n - 1), dispatchLog[n].ids[1])
         ELSE IndividualIds(c, n - 1)

\* each drain cycle dispatches in the order of its drained set: the nodes of a batch
\* dispatch are in that order, and the individual sends made so far are the first
\* items of the set, one after the other
DispatchedInQueueOrder ==
    /\ \A c \in DrainCycles :
          LET sent == IndividualIds(c, Len(dispatchLog))
          IN  /\ Len(sent) <= Len(drainedSets[c])
              /\ sent = SubSeq(drainedSets[c], 1, Len(sent))
    /\ \A i \in DOMAIN dispatchLog :
          dispatchLog[i].kind = "batch" =>
              InOrderOf(dispatchLog[i].ids, drainedSets[dispatchLog[i].cycle])
    /\ InOrderOf(NapCatForwardNodes(messages), Ids(messages))
    /\ bpc # "idle" => InOrderOf(Ids(messages), drainedSets[cycle])

\* a step that changes the queue without draining it appends one payload at its end
AppendsAtEnd ==
    (message_queue' # message_queue /\ cycle' = cycle) =>
        /\ Len(message_queue') = Len(message_queue) + 1
        /\ SubSeq(message_queue', 1, Len(message_queue)) = message_queue

\* C13: the queue grows at its end only, a drain takes it in that order, and within
\* one drain cycle the items are dispatched in that order: as successive individual
\* sends, or as the forward nodes of the batch call.
C13_FifoWithinCycle ==
    /\ []DispatchedInQueueOrder
    /\ [][AppendsAtEnd /\ DrainStep]_vars

\* an item that was appended before an item with a smaller id (whose fallback image
\* lookup took longer) went out ahead of it, in a batch of three forward nodes
C13_Witness ==
    \E i \in DOMAIN dispatchLog :
        /\ dispatchLog[i].kind = "batch"
        /\ dispatchLog[i].ok
        /\ Len(dispatchLog[i].ids) = 3
        /\ dispatchLog[i].ids = drainedSets[dispatchLog[i].cycle]
        /\ dispatchLog[i].ids[1] > dispatchLog[i].ids[2]

----------------------------------------------------------------------------
(* Properties of the rate limit (SpecRate) *)

\* C14 as stated: any two outbound requests of one provider start at least that
\* provider's request interval apart, whichever tasks made them.
C14_RequestsSpacedByInterval ==
    \A i, j \in DOMAIN requests :
        (i < j /\ requests[i].provider = requests[j].provider) =>
            requests[j].time - requests[i].time >= RequestInterval(requests[i].provider)

----------------------------------------------------------------------------
(* Properties of the cache store's failures (SpecEnrich) *)

\* the enrich_media_data call that started in this step went on to the provider
\* loop: it is suspended in a provider's lookup, or it has returned after calling
\* providers that made no lookup
GoesToProviders ==
    \/ /\ enrich_log' = <<>>
       /\ \E c \in enrich_calls' \ enrich_calls : c.id = nEnrich' /\ ~c.hit
    \/ /\ enrich_log' # <<>>
       /\ ~enrich_log'[1].hit
       /\ enrich_log'[1].calls # <<>>
       /\ enrich_calls' = enrich_calls

\* a step in which the read of the cache store fails is a miss
FailedReadIsMiss ==
    (ManagerCallStarts /\ ~cache_ops'[1].ok) => GoesToProviders

\* a step in which the write of the cache store fails returns the enriched data and
\* leaves the table as it was
FailedWriteStillReturns ==
    (cache_ops' # <<>> /\ cache_ops'[1].op = "set" /\ ~cache_ops'[1].ok) =>
        /\ enrich_log' # <<>>
        /\ enrich_log'[1].output # enrich_log'[1].input
        /\ EnrichedFlags(enrich_log'[1].output) # {}
        /\ media_cache' = media_cache

\* C15: a failed read of the cache store is handled as a miss (the providers are
\* consulted), a failed write still returns the enriched result, and every call
\* that has returned has returned a notification that holds all of its input's keys.
C15_CacheFailureIsMiss ==
    /\ [][FailedReadIsMiss /\ FailedWriteStillReturns]_vars
    /\ [](\A i \in DOMAIN enrich_log :
             DOMAIN enrich_log[i].input \subseteq DOMAIN enrich_log[i].output)

\* the read of the cache store failed for a key whose row is in the table and not
\* expired, and the call is suspended in a provider's lookup
C15_Witness ==
    /\ cache_ops # <<>>
    /\ cache_ops[1].op = "get"
    /\ ~cache_ops[1].ok
    /\ \E row \in media_cache : row.cache_key = cache_ops[1].key /\ row.expiry > now
    /\ \E c \in enrich_calls : c.id = nEnrich /\ c.calls = <<>>

----------------------------------------------------------------------------
(* Properties of what the cache persists (SpecEnrich) *)

\* the fields that may be persisted: overview, external ids, enrichment flags, year
AllowListedFields ==
    {"overview", "tmdb_id", "bgm_id", "tmdb_enriched", "bgm_enriched", "year"}

\* C16: every row of the cache table, and every dict handed to CacheManager.set,
\* holds allow-listed fields only; image_url is in none of them.
C16_OnlyAllowListedFieldsPersisted ==
    /\ \A row \in media_cache :
          /\ DOMAIN row.data \subseteq AllowListedFields
          /\ "image_url" \notin DOMAIN row.data
    /\ \A i \in DOMAIN cache_ops :
          cache_ops[i].op = "set" =>
              /\ DOMAIN cache_ops[i].data \subseteq AllowListedFields
              /\ "image_url" \notin DOMAIN cache_ops[i].data

\* an enrichment whose result carries an image URL and provider fields outside the
\* allow list has just written its row
C16_Witness ==
    /\ cache_ops # <<>>
    /\ cache_ops[1].op = "set"
    /\ cache_ops[1].ok
    /\ enrich_log # <<>>
    /\ DictGet(enrich_log[1].output, "image_url", "") # ""
    /\ DOMAIN enrich_log[1].output \ AllowListedFields # {}
    /\ \E row \in media_cache :
          row.cache_key = cache_ops[1].key /\ row.data = cache_ops[1].data

----------------------------------------------------------------------------
(* Properties of the webhook response against the asynchronous stages (Spec) *)

\* the request of a handle_webhook task has been answered
Answered(id) == \E k \in DOMAIN responses : responses[k].id = id

\* C17: the response of a request is produced without waiting for the enrichment
\* provider calls or the dispatch to finish (a request whose provider calls are
\* still pending has already been answered), and a failure in enrichment or
\* dispatch never turns the response into an error status.
C17_ResponseNeverWaitsForEnrichment ==
    /\ \A h \in handlers : Answered(h.id)
    /\ \A k \in DOMAIN responses :
           Range(responses[k].trace) \cap {"enrich", "tmdb", "bgm", "image"} # {} =>
               responses[k].status = 200

----------------------------------------------------------------------------
(* Properties of the sweep of the dedup cache (Spec) *)

\* this step returns the Response of a request whose duplicate check ran in it
DedupCallReturns ==
    /\ Len(responses') = Len(responses) + 1
    /\ "dedup" \in Range(responses'[Len(responses')].trace)

----------------------------------------------------------------------------
(* Properties of requests that differ in episode number or item name (Spec) *)

\* two answered requests whose media_data differ in episode_number or item_name
\* (the first two fields of the fingerprint), the second within the TTL of the first
DifferingWithinTtl(i, j) ==
    /\ i < j
    /\ responses[i].status = 200
    /\ responses[j].status = 200
    /\ responses[i].hash.kind = "standard"
    /\ responses[j].hash.kind = "standard"
    /\ \/ responses[i].hash.fields[1] # responses[j].hash.fields[1]
       \/ responses[i].hash.fields[2] # responses[j].hash.fields[2]
    /\ responses[j].time - responses[i].time <= cfg.cache_ttl_seconds

\* requests that differ in episode number or item name have different fingerprints,
\* and the later one is answered as duplicate only against some other request
NeverDeduplicatedAgainstEachOther ==
    \A i, j \in DOMAIN responses :
        DifferingWithinTtl(i, j) =>
            /\ responses[i].hash # responses[j].hash
            /\ responses[j].text = "duplicate" =>
                   \E m \in 1..(j - 1) : /\ m # i
                                         /\ responses[m].hash = responses[j].hash

\* C19: requests that differ in episode number or item name are never deduplicated
\* against each other, and each accepted one is in the queue, even when they arrive
\* within the TTL of the dedup cache.
C19_DifferingEventsBothEnqueued ==
    /\ NeverDeduplicatedAgainstEachOther
    /\ \A i, j \in DOMAIN responses :
           DifferingWithinTtl(i, j) =>
               \A k \in {i, j} : responses[k].text = "queued" =>
                                     QueueEntries(responses[k].id) # {}

----------------------------------------------------------------------------
(* Properties of the processor registry (SpecMedia) *)

\* the return of detect_and_process_raw_data carries the fallback payload, which
\* process_media_data builds when the registry converted nothing
IsFallback(r) == "fallback" \in DOMAIN r.payload

\* C20: the registry returns the first successful conversion in its fixed order:
\* when the processor of the detected source does not convert the data, the later
\* processors down to the generic catch-all are still tried, so the registry
\* converts nothing only when the generic processor converts nothing either.
C20_LaterProcessorsStillTried ==
    \A i \in DOMAIN dp_results :
        IsFallback(dp_results[i]) =>
            IsEmptyDict(ConvertToStandard(dp_results[i].payload.media_data, "generic"))

----------------------------------------------------------------------------
(* Properties of the source detection (SpecProbe) *)

\* the source the User-Agent header of the request marks, "" when none
HeaderSource(headers) ==
    LET user_agent == DictGet(headers, "User-Agent", DictGet(headers, "user-agent", ""))
    IN  IF Has(user_agent, "emby") THEN "emby"
        ELSE IF Has(user_agent, "jellyfin") THEN "jellyfin"
        ELSE IF Has(user_agent, "plex") THEN "plex"
        ELSE ""

\* the source whose characteristic keys the body holds, "" when none
ShapeSource(body) ==
    IF {"Item", "Server"} \subseteq DOMAIN body.data THEN "emby"
    ELSE IF "ItemType" \in DOMAIN body.data \/ "SeriesName" \in DOMAIN body.data
    THEN "jellyfin"
    ELSE IF "Metadata" \in DOMAIN body.data \/ "Player" \in DOMAIN body.data THEN "plex"
    ELSE ""

\* the detector was applied to a request whose User-Agent marks one source and
\* whose body has the key shape of another
HeaderAndShapeDisagree ==
    /\ verdict.fn = "detect"
    /\ HeaderSource(probe.headers) # ""
    /\ ShapeSource(probe.body) \notin {"", HeaderSource(probe.headers)}

\* C21: detection tries the header markers before the shape probes: when the
\* User-Agent marks one source and the key shape of the body matches another, the
\* source of the header is returned.
C21_HeaderMarkersBeforeShape ==
    HeaderAndShapeDisagree => verdict.source = HeaderSource(probe.headers)

\* the tags the detectors return when nothing matches
DefaultTags == {"generic", "default", "unknown"}

\* the request carries no header and its body has no key at all: the JSON value is
\* an empty object or no object
NothingMatches == DOMAIN probe.headers = {} /\ DOMAIN probe.body.data = {}

\* C22: detection returns a tag for every request, also for a body that matches no
\* marker or shape and for a JSON body that is no object; it never raises, and when
\* nothing matches the tag is the default one.
C22_DetectionAlwaysReturnsTag ==
    verdict.fn = "detect" =>
        /\ verdict.source # "raise"
        /\ NothingMatches => verdict.source \in DefaultTags

----------------------------------------------------------------------------
(* Properties of the rejection at ingress (Spec) *)

\* this step answers a request whose body is empty, or neither JSON nor a template
AnswersUnparsedBody ==
    /\ Len(responses') = Len(responses) + 1
    /\ responses'[Len(responses')].body \in {"empty", "invalid"}

\* C23: a request whose body is empty, or is neither valid JSON (also after the
\* Ani-RSS repair) nor a recognised text template, is answered with an error
\* status; nothing is enqueued for it and the dedup cache stays as it was.
C23_UnparsedBodyIsRejected ==
    [][AnswersUnparsedBody =>
         /\ responses'[Len(responses')].status >= 400
         /\ responses'[Len(responses')].trace = <<>>
         /\ message_queue' = message_queue
         /\ request_cache' = request_cache]_vars

\* an unparsed body was answered while the dedup cache held an entry
C23_Witness ==
    /\ request_cache # {}
    /\ responses # <<>>
    /\ responses[Len(responses)].body = "invalid"
    /\ responses[Len(responses)].status = 400

----------------------------------------------------------------------------
(* Properties of the Ani-RSS text template test (SpecProbe) *)

\* the known template variables that occur in a text
KnownVariables(text) == {text[i] : i \in DOMAIN text} \cap AniRssTemplatePatterns

\* C24: a non-JSON body is recognised as an Ani-RSS text template only if it holds
\* at least 3 distinct known template variables; the empty text, plain text and a
\* text with a single template variable are rejected.
C24_TemplateNeedsThreeVariables ==
    verdict.fn = "template" =>
        (verdict.result => Cardinality(KnownVariables(probe.text)) >= 3)

----------------------------------------------------------------------------
(* Properties of the image chain (SpecProbe) *)

\* the image-capable providers the manager was configured with
ImageCapable(config) ==
    {p \in {TMDBProvider, BGMProvider} : p.name = "TMDB" => config.tmdb_api_key # ""}

\* C25: get_media_image asks the image-capable providers in ascending priority and
\* returns the first non-empty URL without calling a later provider; a provider
\* that raises or returns nothing is skipped, and the result is empty when no
\* provider yields a URL.
C25_FirstImageInPriorityOrder ==
    verdict.fn = "image" =>
        LET called == verdict.called
            yields(p) == probe.outcome[p.name] = "url"
        IN  /\ \A i \in DOMAIN called : called[i] \in ImageCapable(probe.config)
            /\ \A i, j \in DOMAIN called : i < j => called[i].priority < called[j].priority
            /\ \A p \in ImageCapable(probe.config) :
                   (\A i \in DOMAIN called : called[i] # p) =>
                       \E i \in DOMAIN called : /\ called[i].priority < p.priority
                                                /\ yields(called[i])
            /\ \A i \in DOMAIN called : yields(called[i]) =>
                   /\ i = Len(called)
                   /\ verdict.image_url = ImageUrlOf(called[i].name)
            /\ (\A p \in ImageCapable(probe.config) : ~yields(p)) <=> verdict.image_url = ""

\* the first provider raised and the second one supplied the image
C25_Witness ==
    /\ verdict.fn = "image"
    /\ Len(verdict.called) = 2
    /\ probe.outcome[verdict.called[1].name] = "raise"
    /\ verdict.image_url = ImageUrlOf(verdict.called[2].name)

----------------------------------------------------------------------------
(* Properties of the adapter selection (SpecProbe) *)

\* the identifiers that name a platform with an adapter of its own, whatever
\* their case
NamesKnownPlatform(platform_name) ==
    platform_name \in {"napcat", "NapCat-QQ", "llonebot", "LLOneBot", "onebot", "OneBot"}

----------------------------------------------------------------------------
(* Properties of the Emby conversion (SpecProbe) *)

\* C27: an Emby Episode notification with season number s and episode number e
\* converts to data with item type "Episode", the decimal string of s as season
\* number and the decimal string of e as episode number, for all s, e >= 0.
C27_EpisodeNumbersAsDecimalStrings ==
    verdict.fn = "emby" =>
        /\ verdict.data.item_type = "Episode"
        /\ verdict.data.season_number = Str(probe.data.Item.ParentIndexNumber)
        /\ verdict.data.episode_number = Str(probe.data.Item.IndexNumber)

----------------------------------------------------------------------------
(* Properties of the progress of the batch processor (SpecBatchLive) *)

\* the item of this id is in the queue
InQueue(id) == \E i \in DOMAIN message_queue : message_queue[i].id = id

\* the item of this id was taken by a drain
Drained(id) == \E c \in DOMAIN drainedSets : \E i \in DOMAIN drainedSets[c] : drainedSets[c][i] = id

\* C28: with a target group configured every enqueued item is eventually taken by
\* a drain (as long as the run has a drain cycle left): a send that fails or times
\* out, or an exception inside a cycle, does not stop the later cycles.
C28_EveryItemEventuallyDrained ==
    \A id \in 1..MaxItems :
        (InQueue(id) /\ cfg.group_id # "" /\ cycle < MaxCycles) ~> Drained(id)

\* a drain ran after a cycle in which a send had failed
C28_Witness ==
    /\ cycle = 2
    /\ \E d \in DOMAIN dispatchLog : dispatchLog[d].cycle = 1 /\ ~dispatchLog[d].ok
    /\ Len(drainedSets) = 2
    /\ drainedSets[2] # <<>>

----------------------------------------------------------------------------
(* Properties of concurrent handlers with the same fingerprint (Spec) *)

\* two requests with the same fingerprint whose dedup checks ran within the TTL
SameFingerprintWithinTtl(i, j) ==
    /\ i < j
    /\ "dedup" \in Range(responses[i].trace)
    /\ "dedup" \in Range(responses[j].trace)
    /\ responses[i].hash = responses[j].hash
    /\ responses[j].time - responses[i].time <= cfg.cache_ttl_seconds

\* C29: of two handlers that process deliveries with the same fingerprint
\* concurrently within the TTL at most one passes the dedup check and is enqueued,
\* also when both have run enrichment.
C29_AtMostOnePassesDedup ==
    \A i, j \in DOMAIN responses :
        SameFingerprintWithinTtl(i, j) =>
            /\ ~(responses[i].text = "queued" /\ responses[j].text = "queued")
            /\ Cardinality(QueueEntries(responses[i].id) \cup
                           QueueEntries(responses[j].id)) <= 1

\* the handler that started first was still in its provider calls when the second
\* one passed the dedup check, and was then answered as duplicate
C29_Witness ==
    /\ Len(responses) >= 2
    /\ responses[1].id = 2
    /\ responses[2].id = 1
    /\ SameFingerprintWithinTtl(1, 2)
    /\ responses[1].text = "queued"
    /\ responses[2].text = "duplicate"
    /\ Range(responses[1].trace) \cap {"tmdb", "bgm"} # {}
    /\ Range(responses[2].trace) \cap {"tmdb", "bgm"} # {}

(***************************************************************************)
(* Properties of the persistent cache against the provider path            *)
(* (SpecEnrich)                                                            *)
(***************************************************************************)

\* the flags among the fields of a media_data dict
FlagFields == {"tmdb_enriched", "tvdb_enriched", "bgm_enriched", "enriched_from_cache"}

\* the value of field k of dict d is None (a dict.get of an absent key gives the
\* same)
IsNoneField(d, k) == IF k \in FlagFields THEN d[k] = FALSE ELSE d[k] = "None"

\* the enrichment fields of a returned dict: what it holds beyond the fields of
\* the call's argument, the mark of the cache and None values aside
EnrichmentFields(e) ==
    {k \in DOMAIN e.output \ {"enriched_from_cache"} :
        /\ ~IsNoneField(e.output, k)
        /\ k \in DOMAIN e.input => e.output[k] # e.input[k]}

\* the last step returned a provider-path call that wrote its cache entry, and this
\* step answers the same notification from that entry
HitAfterPopulatingCall ==
    /\ enrich_log # <<>>
    /\ enrich_log[1].rev = "manager"
    /\ ~enrich_log[1].hit
    /\ cache_ops # <<>>
    /\ cache_ops[1].op = "set"
    /\ cache_ops[1].ok
    /\ enrich_log' # <<>>
    /\ enrich_log'[1].rev = "manager"
    /\ enrich_log'[1].hit
    /\ enrich_log'[1].input = enrich_log[1].input

\* C30: for the same input notification, enrich_media_data on a persistent-cache
\* hit returns the same enrichment fields, with the same values, as the
\* provider-path call that populated the cache entry.
C30_CacheHitEqualsProviderPath ==
    [][HitAfterPopulatingCall =>
          /\ EnrichmentFields(enrich_log'[1]) = EnrichmentFields(enrich_log[1])
          /\ \A k \in EnrichmentFields(enrich_log[1]) :
                enrich_log'[1].output[k] = enrich_log[1].output[k]]_vars

(***************************************************************************)
(* Properties of the dispatch of a drained set (SpecBatch)                 *)
(***************************************************************************)

\* item id of the drain of cycle c is in a dispatch of that cycle: a node of the
\* forward call or the message of an individual send
InDispatchOf(id, c) ==
    \E i \in DOMAIN dispatchLog :
        /\ dispatchLog[i].cycle = c
        /\ id \in Range(dispatchLog[i].ids)

\* the dispatch of cycle c is over
CycleOver(c) == c < cycle \/ (c = cycle /\ bpc = "idle")

\* C31: every item of a drained set is part of a dispatch attempt in that cycle,
\* as a node of the batch call or as its own individual send; no item is left out
\* of both.
C31_EveryDrainedItemIsDispatched ==
    \A c \in DOMAIN drainedSets :
        CycleOver(c) => \A id \in Range(drainedSets[c]) : InDispatchOf(id, c)

(***************************************************************************)
(* Properties of the lookup caches (SpecProbe)                             *)
(***************************************************************************)

\* the lookup that just returned repeats, within the cache TTL, a lookup of the
\* same key whose request was answered with no result
RepeatsEmptyLookupWithinTtl ==
    /\ verdict.fn = "search"
    /\ verdict.before = "empty"
    /\ verdict.age < ProviderCacheTtl

\* C32: after a provider lookup that found no result, a repeated lookup for the
\* same key within the in-memory cache TTL is answered from the cache, without a
\* new outbound request.
C32_EmptyResultAnsweredFromCache ==
    RepeatsEmptyLookupWithinTtl => ~verdict.outbound

(***************************************************************************)
(* Properties of the window of a dedup entry (Spec)                        *)
(***************************************************************************)

\* the entries of the dedup cache for a fingerprint
EntriesOf(cache, hash) == {e \in cache : e.hash = hash}

\* response i is an accepted delivery of the fingerprint whose window, counted
\* from its own check, covers time t
AcceptedWithin(i, hash, t) ==
    /\ "dedup" \in Range(responses[i].trace)
    /\ responses[i].text = "queued"
    /\ responses[i].hash = hash
    /\ ~(responses[i].time + cfg.cache_ttl_seconds < t)

\* C33: a check that reports a duplicate leaves the expiry of the cache entry as
\* it was; the window is counted from the accepted delivery, so a delivery is
\* reported as duplicate exactly when an accepted delivery of its fingerprint was
\* checked no longer than the TTL ago, and is accepted again after that.
C33_DuplicateKeepsExpiry ==
    [][DedupCallReturns =>
         LET r == responses'[Len(responses')]
         IN  /\ r.text = "duplicate" =>
                    /\ EntriesOf(request_cache', r.hash) = EntriesOf(request_cache, r.hash)
                    /\ EntriesOf(request_cache, r.hash) # {}
             /\ r.text = "duplicate" <=>
                    \E i \in DOMAIN responses : AcceptedWithin(i, r.hash, now)]_vars

\* a delivery was reported as duplicate one tick after the accepted one, and the
\* entry still expires when the window of the accepted delivery ends
C33_Witness ==
    /\ Len(responses) = 2
    /\ responses[1].text = "queued"
    /\ responses[2].text = "duplicate"
    /\ responses[2].hash = responses[1].hash
    /\ responses[2].time > responses[1].time
    /\ request_cache = {[hash |-> responses[1].hash,
                         expire |-> responses[1].time + cfg.cache_ttl_seconds]}

(***************************************************************************)
(* Properties of an event without a fingerprint (SpecProbe)                *)
(***************************************************************************)

\* the duplicate check ran on an event whose fingerprint computation raised
FingerprintFailed ==
    /\ verdict.fn = "dedup"
    /\ HashRaises(probe.md)

\* C34: when the fingerprint computation fails for an event, the event is treated
\* as not a duplicate: the dedup cache is left as it was and the event goes on to
\* the queue.
C34_NoFingerprintMeansNotDuplicate ==
    FingerprintFailed =>
        /\ ~verdict.duplicate
        /\ verdict.cache = probe.cache
        /\ verdict.response = "queued"

\* the check ran without a fingerprint on a cache that held an expired entry, and
\* the entry is still there
C34_Witness ==
    /\ FingerprintFailed
    /\ verdict.hash = NoHash
    /\ \E e \in probe.cache : e.expire < probe.time
    /\ verdict.cache = probe.cache
    /\ verdict.response = "queued"

(***************************************************************************)
(* Properties of a plugin without a target group (SpecBatch)               *)
(***************************************************************************)

\* the items that were appended to the queue so far
Appended == (1..nItems) \ {p.id : p \in producers}

\* C35: when no target group is configured, a drain sends nothing and leaves the
\* queue as it is: no set is drained, nothing is dispatched, and every item that
\* was appended is still in the queue for a later drain.
C35_NoGroupKeepsQueue ==
    cfg.group_id = "" =>
        /\ drainedSets = <<>>
        /\ dispatchLog = <<>>
        /\ messages = <<>>
        /\ bpc = "idle"
        /\ Range(Ids(message_queue)) = Appended
        /\ Len(message_queue) = Cardinality(Appended)

\* without a group, the queue holds more items than the batch threshold asks for
\* and the batch processor has drained none of them
C35_Witness ==
    /\ cfg.group_id = ""
    /\ Len(message_queue) = MaxItems
    /\ Len(message_queue) >= cfg.batch_min_size
    /\ producers = {}
    /\ cycle = 0
    /\ dispatchLog = <<>>

(***************************************************************************)
(* Properties of the configuration the pipeline uses (SpecProbe)           *)
(***************************************************************************)

\* C36: after initialisation the values the pipeline uses satisfy the
\* configuration minimums whatever was configured: batch threshold at least 1,
\* dedup TTL at least 60 seconds, batch interval at least 10 seconds.
C36_UsedValuesSatisfyMinimums ==
    verdict.fn = "init" =>
        /\ verdict.used.batch_min_size >= MinBatchSize
        /\ verdict.used.cache_ttl_seconds >= MinCacheTtl
        /\ verdict.used.batch_interval_seconds >= MinBatchInterval

(***************************************************************************)
(* Properties of the adapters' forward send (SpecProbe)                    *)
(***************************************************************************)

\* a node cannot be built or an argument of the send call cannot be made
BuildFails ==
    \/ NodeMessages(probe.class, probe.messages) # <<>>
          /\ NodeRaises(probe.class, probe.sender_id)
    \/ ~IsIntLiteral(probe.group_id)

\* the client raised on every send call the adapter made
ClientFails ==
    /\ probe.client.first = "raise"
    /\ probe.class = "AiocqhttpAdapter" => probe.client.fallback = "raise"

\* a send call of the client came back without an error
ClientSendReturned ==
    /\ ~BuildFails
    /\ ~ClientFails
    /\ probe.class # "AiocqhttpAdapter" =>
          NodeMessages(probe.class, probe.messages) # <<>>

MessageOfNode(i) == NodeMessages(probe.class, probe.messages)[i]

\* the content carries the text of the message, as it is or stripped
CarriesText(content, message) ==
    \E k \in DOMAIN content :
        /\ content[k].type = "text"
        /\ content[k].data \in {message.message_text, Strip(message.message_text)}

\* C38: for every adapter, the forward node built for a message with non-empty
\* message_text contains a text segment carrying that message_text, and the
\* content of a forward node is never empty.
C38_NodeCarriesMessageText ==
    verdict.fn = "forward" =>
        \A i \in DOMAIN verdict.nodes :
            /\ verdict.nodes[i] # <<>>
            /\ Strip(MessageOfNode(i).message_text) # "" =>
                   CarriesText(verdict.nodes[i], MessageOfNode(i))

\* C39: after any sequence of add_processor and remove_processor calls, the
\* generic catch-all processor, whenever it is in the processors list, is the
\* last entry of the list.
C39_GenericProcessorStaysLast ==
    (probe.fn = "registry" /\ "GenericProcessor" \in Range(probe.processors)) =>
        probe.processors[Len(probe.processors)] = "GenericProcessor"

====
